---- MODULE Spec2Model ----
(***************************************************************************)
(* The resilient request executor of nepa-dapp/src/api/integration-layer.ts *)
(* (class IntegrationLayer): keyed cache, sliding-window rate limiter,      *)
(* retry with backoff, metrics and webhook emission on failure.             *)
(*                                                                          *)
(* JavaScript runs the executor on one thread: the code between two awaits  *)
(* is one atomic step.  A request call is a process whose position (pc) is  *)
(* the await it is suspended on.                                            *)
(***************************************************************************)
EXTENDS Integers, Sequences, FiniteSets, Bags, TLC

(* ------------------------------ bounds --------------------------------- *)
\* the clock runs 0..MaxTime (and on while a timer is still pending)
MaxTime == 2
\* request calls issued in one behaviour
MaxCalls == 4
\* request calls that may be in flight at once
NumProcs == 2
\* retryAttempts ranges over 0..MaxRetry
MaxRetry == 2
\* cacheConfig.maxSize ranges over 1..MaxCacheSize
MaxCacheSize == 2
\* rateLimitConfig.maxRequests ranges over 1..MaxBudget
MaxBudget == 2

Procs == 1..NumProcs

(* -------------------------- input domains ------------------------------ *)
\* AxiosRequestConfig values a caller passes: (url, method, params, data)
Configs ==
    { [url |-> "/a", method |-> "GET",  params |-> "none", data |-> "none"],
      [url |-> "/b", method |-> "GET",  params |-> "none", data |-> "none"],
      [url |-> "/a", method |-> "GET",  params |-> "q=1",  data |-> "none"],
      [url |-> "/a", method |-> "POST", params |-> "none", data |-> "body"] }

\* response bodies; 0 is the JavaScript number 0 (a falsy value, as are "" and null)
Datas == {0, 1}

\* errors an attempt can reject with: message and error.response?.status
\* (0 stands for undefined: no response was received)
Errors ==
    { [message |-> "timeout of 5000ms exceeded", response |-> 0],
      [message |-> "401 Unauthorized",           response |-> 401] }

NoError == [message |-> "", response |-> 0]

Strategies == {"lru", "fifo", "lfu"}

\* the empty string '' that evictLRU/evictLFU start their scan with
NoKey == <<>>

\* Infinity, the start value of evictLFU's scan
Infinity == -1

(* ------------------------------ state ---------------------------------- *)
VARIABLES
    now,              \* Date.now()
    config,           \* this.config: retryAttempts, retryDelay
    rateLimitConfig,  \* this.rateLimitConfig: windowMs, maxRequests
    cacheConfig,      \* this.cacheConfig: enabled, ttl, maxSize, strategy
    metrics,          \* this.metrics
    cache,            \* this.cache: a Map, kept as the sequence of its entries in insertion order
    rateLimitTracker, \* this.rateLimitTracker.get(baseURL): sequence of timestamps
    webhooks,         \* this.webhooks: sequence of subscriptions in insertion order
    pc,               \* per call: the await the call is suspended on
    call,             \* per call: the locals of request/checkRateLimit/makeRequestWithRetry
    result,           \* per call: the APIResponse the promise resolved to
    obs,              \* per call: what the call has done so far (attempts, errors, deliveries)
    admitLog,         \* times at which calls passed checkRateLimit, within the trailing window
    insOrder,         \* the keys now in the Map, in the order in which they were inserted
    calls,            \* request calls issued so far
    outcomes,         \* request calls that have ended so far: in success, in failure
    probes            \* healthCheck() calls settled so far and the events they emitted

\* class IntegrationMonitor (integration-monitor.ts)
VARIABLES
    monConfig,        \* this.config: logLevel, maxLogEntries, retention, alertConfig
    services,         \* this.services: the registered names, in insertion order
    listeners,        \* per name, the listener sets registerService attached to its executor
    logs,             \* this.logs
    healthChecks,     \* this.healthChecks: per name, the live snapshot (or none)
    alertCooldowns,   \* this.alertCooldowns: per cooldown key, the time of the last alert
    alerts,           \* per service and alert type, the times of the 'alert' events emitted
    deliveries,       \* the triggerAlert calls suspended on a channel delivery (a bag)
    cycle,            \* performHealthChecks: the probe the running cycle is suspended on
                      \* (the loop's serviceName and the iterator's position in
                      \* this.services), and how the probe before it settled
    metricsHistory,   \* this.metricsHistory: per name, the retained samples (none: no entry)
    recorded,         \* per name, the recordMetrics calls made since it was registered
    timers,           \* healthCheckInterval and metricsInterval: whether each handle is
                      \* set, the interval timers of each kind that are running, and
                      \* the restarts updateConfig has made
    answer,           \* the last getLogs / getMonitoringSummary call and what it returned
    logCalls          \* log() calls made from outside the monitor so far

\* the monitor's state that only the metrics history, the timers and the queries touch
auxVars == <<metricsHistory, recorded, timers, answer, logCalls>>

monVars == <<monConfig, services, listeners, logs, healthChecks, alertCooldowns, alerts,
             deliveries, cycle, metricsHistory, recorded, timers, answer, logCalls>>

vars == <<now, config, rateLimitConfig, cacheConfig, metrics, cache, rateLimitTracker,
          webhooks, pc, call, result, obs, admitLog, insOrder, calls, outcomes, probes,
          monConfig, services, listeners, logs, healthChecks, alertCooldowns, alerts,
          deliveries, cycle, metricsHistory, recorded, timers, answer, logCalls>>

(* ------------------------- sequence helpers ---------------------------- *)
RECURSIVE SeqMin(_)
SeqMin(s) ==
    IF Len(s) = 1 THEN s[1]
    ELSE LET m == SeqMin(Tail(s)) IN IF s[1] <= m THEN s[1] ELSE m

\* Math.pow(2, n)
RECURSIVE Pow2(_)
Pow2(n) == IF n = 0 THEN 1 ELSE 2 * Pow2(n - 1)

(* ------------------------------ cache ---------------------------------- *)
\* generateCacheKey: base64(JSON.stringify({url, method, params, data})), which is
\* one-to-one on the four fields; the key is kept as the tuple of the four.
generateCacheKey(cfg) == <<cfg.url, cfg.method, cfg.params, cfg.data>>

\* config.method?.toLowerCase() === 'get'
IsGet(cfg) == cfg.method = "GET"

\* the test that guards the cache written without the method
cacheableAnyMethod(cc, cfg) == cc.enabled

\* this.cacheConfig.enabled && config.method?.toLowerCase() === 'get', the test
\* that guards both the cache lookup and setCache in request
cacheable(cc, cfg) == cc.enabled /\ IsGet(cfg)

\* Map.has / Map.get
CacheKeys(c) == { c[i].key : i \in 1..Len(c) }
CacheHas(c, key) == key \in CacheKeys(c)
CacheIndex(c, key) == CHOOSE i \in 1..Len(c) : c[i].key = key
CacheGet(c, key) == c[CacheIndex(c, key)]

\* Map.delete: no effect when the key is absent
CacheDelete(c, key) == SelectSeq(c, LAMBDA e : e.key # key)

\* Map.set: an existing key keeps its place in the iteration order
CacheSet(c, key, entry) ==
    IF CacheHas(c, key)
    THEN [c EXCEPT ![CacheIndex(c, key)] = entry]
    ELSE Append(c, entry)

\* JavaScript truthiness of what getFromCache returned (null, or the stored data)
Truthy(r) == ~r.isNull /\ r.data # 0

\* getFromCache with the expiry test written >= instead of >
getFromCacheEarlyExpiry(c, key, t, ttl) ==
    IF ~CacheHas(c, key)
    THEN [ret |-> [isNull |-> TRUE, data |-> 0], cache |-> c]
    ELSE LET item == CacheGet(c, key) IN
         IF t - item.timestamp >= ttl
         THEN [ret |-> [isNull |-> TRUE, data |-> 0], cache |-> CacheDelete(c, key)]
         ELSE [ret |-> [isNull |-> FALSE, data |-> item.data],
               cache |-> [c EXCEPT ![CacheIndex(c, key)].hits = @ + 1]]

\* getFromCache(key) at clock t: the value returned and the cache afterwards
getFromCache(c, key, t, ttl) ==
    IF ~CacheHas(c, key)
    THEN [ret |-> [isNull |-> TRUE, data |-> 0], cache |-> c]
    ELSE LET item == CacheGet(c, key) IN
         IF t - item.timestamp > ttl
         THEN [ret |-> [isNull |-> TRUE, data |-> 0], cache |-> CacheDelete(c, key)]
         ELSE [ret |-> [isNull |-> FALSE, data |-> item.data],
               cache |-> [c EXCEPT ![CacheIndex(c, key)].hits = @ + 1]]

\* evictLRU at clock t: scan in iteration order for timestamp < oldestTime,
\* starting from oldestTime = Date.now() and oldestKey = ''
RECURSIVE LRUScan(_, _, _, _)
LRUScan(c, i, oldestKey, oldestTime) ==
    IF i > Len(c) THEN oldestKey
    ELSE IF c[i].timestamp < oldestTime
         THEN LRUScan(c, i + 1, c[i].key, c[i].timestamp)
         ELSE LRUScan(c, i + 1, oldestKey, oldestTime)

evictLRU(c, t) ==
    LET oldestKey == LRUScan(c, 1, NoKey, t)
    IN IF oldestKey # NoKey THEN CacheDelete(c, oldestKey) ELSE c

\* evictFIFO: the first key of the Map's iteration order
evictFIFO(c) ==
    IF Len(c) > 0 /\ c[1].key # NoKey THEN CacheDelete(c, c[1].key) ELSE c

\* evictLFU: scan in iteration order for hits < leastHits, starting from Infinity
RECURSIVE LFUScan(_, _, _, _)
LFUScan(c, i, leastUsedKey, leastHits) ==
    IF i > Len(c) THEN leastUsedKey
    ELSE IF leastHits = Infinity \/ c[i].hits < leastHits
         THEN LFUScan(c, i + 1, c[i].key, c[i].hits)
         ELSE LFUScan(c, i + 1, leastUsedKey, leastHits)

\* evictLFU with the scan's comparison written <= instead of <
RECURSIVE LFUScanLastTie(_, _, _, _)
LFUScanLastTie(c, i, leastUsedKey, leastHits) ==
    IF i > Len(c) THEN leastUsedKey
    ELSE IF leastHits = Infinity \/ c[i].hits <= leastHits
         THEN LFUScanLastTie(c, i + 1, c[i].key, c[i].hits)
         ELSE LFUScanLastTie(c, i + 1, leastUsedKey, leastHits)

evictLFULastTie(c) ==
    LET leastUsedKey == LFUScanLastTie(c, 1, NoKey, Infinity)
    IN IF leastUsedKey # NoKey THEN CacheDelete(c, leastUsedKey) ELSE c

evictLFU(c) ==
    LET leastUsedKey == LFUScan(c, 1, NoKey, Infinity)
    IN IF leastUsedKey # NoKey THEN CacheDelete(c, leastUsedKey) ELSE c

evictFromCache(c, t, strategy) ==
    CASE strategy = "lru"  -> evictLRU(c, t)
      [] strategy = "fifo" -> evictFIFO(c)
      [] strategy = "lfu"  -> evictLFU(c)
      [] OTHER             -> c

\* setCache(key, data) at clock t
setCache(c, key, data, t, cc) ==
    LET c1 == IF Len(c) >= cc.maxSize THEN evictFromCache(c, t, cc.strategy) ELSE c
    IN CacheSet(c1, key, [key |-> key, data |-> data, timestamp |-> t, hits |-> 0])

(* ----------------------------- metrics --------------------------------- *)
InitMetrics ==
    [totalRequests |-> 0, successfulRequests |-> 0, failedRequests |-> 0,
     averageResponseTime |-> 0, rateLimitHits |-> 0, cacheHits |-> 0,
     cacheMisses |-> 0, lastError |-> ""]

\* the cache lookup counting a hit as a completed request as well
countCacheLookupAsRequest(m, hit) ==
    IF hit THEN [m EXCEPT !.cacheHits = @ + 1, !.totalRequests = @ + 1,
                          !.successfulRequests = @ + 1]
    ELSE [m EXCEPT !.cacheMisses = @ + 1]

\* request's cache lookup: this.metrics.cacheHits++ before the cached return,
\* this.metrics.cacheMisses++ otherwise
countCacheLookup(m, hit) ==
    IF hit THEN [m EXCEPT !.cacheHits = @ + 1] ELSE [m EXCEPT !.cacheMisses = @ + 1]

\* updateAverageResponseTime; every sample the interceptor passes is
\* response.config.metadata?.responseTime || 0, so the quotient is exact
updateAverageResponseTime(m, responseTime) ==
    LET totalRequests == m.successfulRequests + m.failedRequests
    IN [m EXCEPT !.averageResponseTime =
            (@ * (totalRequests - 1) + responseTime) \div totalRequests]

\* response.config.metadata?.responseTime || 0: nothing sets metadata
SampleResponseTime == 0

\* recordSuccess (response interceptor)
recordSuccess(m) ==
    updateAverageResponseTime(
        [m EXCEPT !.successfulRequests = @ + 1], SampleResponseTime)

\* recordFailure (response interceptor); lastErrorTime, which nothing reads, is left out
recordFailure(m, error) ==
    [m EXCEPT !.failedRequests = @ + 1,
              !.lastError = error.message]

(* --------------------------- rate limiter ------------------------------ *)
\* requests.filter(timestamp => timestamp > windowStart)
PruneWindow(requests, t, windowMs) ==
    SelectSeq(requests, LAMBDA ts : ts > t - windowMs)

\* checkRateLimit with the wait computed as oldest + windowMs + now
checkRateLimitSignSlip(tracker, t, rl) ==
    LET requests == SelectSeq(tracker, LAMBDA ts : ts > t - rl.windowMs)
        over == Len(requests) >= rl.maxRequests
        waitTime == IF over /\ Len(requests) > 0
                    THEN SeqMin(requests) + rl.windowMs + t
                    ELSE 0
    IN [requests |-> requests, over |-> over, waitTime |-> waitTime]

\* checkRateLimit going on without a delay when the budget is used up
checkRateLimitNoWait(tracker, t, rl) ==
    LET requests == PruneWindow(tracker, t, rl.windowMs)
        over == Len(requests) >= rl.maxRequests
    IN [requests |-> requests, over |-> over, waitTime |-> 0]

\* checkRateLimit up to its await: the pruned local copy, whether the budget
\* is used up, and the time to wait
checkRateLimit(tracker, t, rl) ==
    LET requests == PruneWindow(tracker, t, rl.windowMs)
        over == Len(requests) >= rl.maxRequests
        waitTime == IF over /\ Len(requests) > 0
                    THEN SeqMin(requests) + rl.windowMs - t
                    ELSE 0
    IN [requests |-> requests, over |-> over, waitTime |-> waitTime]

\* requests.push(now): now is the value read on entry to checkRateLimit
admitStamp(entryNow, t) == entryNow

\* checkRateLimit returning without storing its array
rateLimitSetSkipped(tracker, requests) == tracker

\* this.rateLimitTracker.set(key, requests): the local copy replaces the window
rateLimitSet(tracker, requests) == requests

(* ------------------------------ retry ---------------------------------- *)
\* the loop test written with one iteration too many
retryAgainOffByOne(attempt, retryAttempts) == attempt <= retryAttempts

\* makeRequestWithRetry: after failed attempt number attempt (0-based) the loop
\* delays and runs again iff attempt < retryAttempts
retryAgain(attempt, retryAttempts) == attempt < retryAttempts

\* the backoff delay growing linearly: retryDelay * (attempt + 1)
backoffDelayLinear(attempt, retryDelay) == retryDelay * (attempt + 1)

\* the backoff delay: retryDelay * Math.pow(2, attempt)
backoffDelay(attempt, retryDelay) == retryDelay * Pow2(attempt)

\* the catch keeping the first error instead of the latest
keepFirstError(lastError, error) == IF lastError.message = "" THEN error ELSE lastError

\* lastError = error, in the catch of the retry loop
keepLastError(lastError, error) == error

(* ----------------------------- webhooks -------------------------------- *)
\* subscriptions an operator may have registered with addWebhook
WebhookSetups ==
    { <<>>,
      << [id |-> "w1", events |-> {"api_failure"}, maxRetries |-> 3] >>,
      << [id |-> "w1", events |-> {"api_failure"}, maxRetries |-> 3],
         [id |-> "w2", events |-> {"payment"}, maxRetries |-> 0],
         [id |-> "w3", events |-> {"api_failure", "payment"}, maxRetries |-> 1] >> }

\* emitWebhook's loop left after the first matching subscription
RECURSIVE NextWebhookFirstOnly(_, _, _)
NextWebhookFirstOnly(whs, i, event) ==
    IF i >= 1 \/ i + 1 > Len(whs) THEN 0
    ELSE IF event \in whs[i + 1].events THEN i + 1
    ELSE NextWebhookFirstOnly(whs, i + 1, event)

\* emitWebhook's loop: the next subscription after index i whose events include event
\* (0 when there is none)
RECURSIVE NextWebhook(_, _, _)
NextWebhook(whs, i, event) ==
    IF i + 1 > Len(whs) THEN 0
    ELSE IF event \in whs[i + 1].events THEN i + 1
    ELSE NextWebhook(whs, i + 1, event)

\* sendWebhook repeating a failed post as the subscription's retryPolicy says
sendWebhookPerPolicy(webhook, delivered) ==
    IF delivered THEN 1 ELSE 1 + webhook.maxRetries

\* sendWebhook: the number of posts it makes to the subscription's url; it awaits
\* one axios.post and never reads webhook.retryPolicy
sendWebhook(webhook, delivered) == 1

\* emitWebhook without the try/catch around the delivery
emitWebhookNoCatch(delivered) == IF delivered THEN "continue" ELSE "throw"

\* try { await this.sendWebhook(...) } catch (error) { console.error(...) }:
\* what reaches emitWebhook's caller after one delivery
emitWebhookCatch(delivered) == "continue"

(* ------------------------------- events -------------------------------- *)
\* this.emit('api_success', {statusCode, url, method}) in recordSuccess
SuccessEvent(status, cfg) ==
    [type |-> "api_success", error |-> "", statusCode |-> status,
     url |-> cfg.url, method |-> cfg.method]

\* this.emit('api_failure', {error, statusCode, url, method}) in recordFailure
FailureEvent(error, cfg) ==
    [type |-> "api_failure", error |-> error.message, statusCode |-> error.response,
     url |-> cfg.url, method |-> cfg.method]

(* ------------------------------ results -------------------------------- *)
NoResult ==
    [success |-> FALSE, data |-> 0, error |-> "", statusCode |-> 0, cached |-> FALSE,
     responseTime |-> 0]

\* the three return statements of request; responseTime is Date.now() - startTime
CachedResult(d, responseTime) ==
    [success |-> TRUE, data |-> d, error |-> "", statusCode |-> 0, cached |-> TRUE,
     responseTime |-> responseTime]
SuccessResult(d, status, responseTime) ==
    [success |-> TRUE, data |-> d, error |-> "", statusCode |-> status, cached |-> FALSE,
     responseTime |-> responseTime]
FailureResult(error, responseTime) ==
    [success |-> FALSE, data |-> 0, error |-> error.message,
     statusCode |-> error.response, cached |-> FALSE, responseTime |-> responseTime]

(* --------------------------- per-call state ---------------------------- *)
NoConfig == [url |-> "", method |-> "", params |-> "", data |-> ""]

IdleCall ==
    [cfg |-> NoConfig, startTime |-> 0, attempt |-> 0, lastError |-> NoError,
     requests |-> <<>>, entryNow |-> 0, wakeAt |-> 0, whIdx |-> 0]

\* what a call has done so far: attempts sent, the errors of its failed attempts in
\* order, whether its last attempt succeeded, what getFromCache returned to it,
\* whether checkRateLimit made it wait, the keys its setCache evicted, the
\* webhook deliveries tried and failed, the events its attempts emitted and the
\* subscriptions its emitWebhook delivered to, in order, the increments it made to
\* cacheHits and cacheMisses, the keys its cache lookup deleted, the timestamp its
\* checkRateLimit pushed and the time at which checkRateLimit returned
NoStamp == -1

IdleObs ==
    [attempts |-> 0, errs |-> <<>>, lastOk |-> FALSE,
     cached |-> [isNull |-> TRUE, data |-> 0], waited |-> FALSE, evicted |-> {},
     whTried |-> 0, whFailed |-> 0, events |-> <<>>, whSent |-> <<>>,
     counted |-> 0, dropped |-> {}, stamp |-> NoStamp, passedAt |-> NoStamp]

(* ------------------------------ monitor -------------------------------- *)
\* names under which executors are registered with the monitor
ServiceNames == {"A", "B"}

\* the service name under which triggerAlert logs a failed channel delivery
MonitorName == "monitor"

\* shouldLog: const levels = ['debug', 'info', 'warn', 'error']
Levels == <<"debug", "info", "warn", "error">>
LevelIndex(level) == CHOOSE i \in 1..Len(Levels) : Levels[i] = level
shouldLog(level, cfg) == LevelIndex(level) >= LevelIndex(cfg.logLevel)

\* log() called without a correlationId: the field is undefined
NoCorrelation == ""

\* the LogEntry built by log() for the monitor's own calls, which pass no
\* correlationId; message, metadata and the other optional fields are left out
LogEntry(t, level, service, operation) ==
    [timestamp |-> t, level |-> level, service |-> service, operation |-> operation,
     correlationId |-> NoCorrelation]

\* Array.prototype.slice(-n): the last n elements; slice(-0) is slice(0), the whole array
SliceLast(s, n) ==
    IF n = 0 \/ n >= Len(s) THEN s ELSE SubSeq(s, Len(s) - n + 1, Len(s))

\* Array.prototype.slice(0, n)
SliceFirst(s, n) == IF n >= Len(s) THEN s ELSE SubSeq(s, 1, n)

\* addLogEntry cutting the store down to its first maxLogEntries entries
addLogEntryKeepOldest(l, entry, t, cfg) ==
    LET pushed == Append(l, entry)
        capped == IF Len(pushed) > cfg.maxLogEntries
                  THEN SliceFirst(pushed, cfg.maxLogEntries)
                  ELSE pushed
    IN SelectSeq(capped, LAMBDA e : e.timestamp > t - cfg.retentionMs)

\* addLogEntry at clock t: push, cap at maxLogEntries, drop what is older than the
\* retention period
addLogEntry(l, entry, t, cfg) ==
    LET pushed == Append(l, entry)
        capped == IF Len(pushed) > cfg.maxLogEntries
                  THEN SliceLast(pushed, cfg.maxLogEntries)
                  ELSE pushed
    IN SelectSeq(capped, LAMBDA e : e.timestamp > t - cfg.retentionMs)

\* Array.prototype.sort((a, b) => b.timestamp - a.timestamp): stable, newest first
RECURSIVE SortNewestFirst(_)
SortNewestFirst(s) ==
    IF s = <<>> THEN <<>>
    ELSE LET e == s[Len(s)]
             r == SortNewestFirst(SubSeq(s, 1, Len(s) - 1))
         IN SelectSeq(r, LAMBDA x : x.timestamp >= e.timestamp)
                \o <<e>> \o SelectSeq(r, LAMBDA x : x.timestamp < e.timestamp)

\* getRecentErrors with an age limit: only the errors as new as the newest entry
\* of the store
getRecentErrorsNewestOnly(l, serviceName, limit) ==
    LET errs == SelectSeq(l, LAMBDA e : /\ e.service = serviceName /\ e.level = "error"
                                        /\ e.timestamp >= l[Len(l)].timestamp)
        sorted == SortNewestFirst(errs)
    IN SubSeq(sorted, 1, IF Len(sorted) < limit THEN Len(sorted) ELSE limit)

\* getRecentErrors(serviceName, limit)
getRecentErrors(l, serviceName, limit) ==
    LET errs == SelectSeq(l, LAMBDA e : e.service = serviceName /\ e.level = "error")
        sorted == SortNewestFirst(errs)
    IN SubSeq(sorted, 1, IF Len(sorted) < limit THEN Len(sorted) ELSE limit)

\* recordMetrics keeps the last 100 entries of a history
HistoryCap == 100

\* the entry recordMetrics pushes at clock t; serial is the ordinal of the
\* recordMetrics call that stored it, kept to tell the samples apart
MetricsSample(t, m, serial) == [timestamp |-> t, metrics |-> m, serial |-> serial]

\* recordMetrics cutting the history at its end: history.splice(100)
recordMetricsDropNewest(history, sample) ==
    LET pushed == Append(history, sample)
    IN IF Len(pushed) > HistoryCap THEN SubSeq(pushed, 1, HistoryCap) ELSE pushed

\* recordMetrics(serviceName, metrics): push, then history.splice(0, length - 100)
recordMetrics(history, sample) ==
    LET pushed == Append(history, sample)
    IN IF Len(pushed) > HistoryCap
       THEN SubSeq(pushed, Len(pushed) - HistoryCap + 1, Len(pushed))
       ELSE pushed

\* n recordMetrics calls in a row at clock t, the first of them with ordinal serial
RECURSIVE recordTimes(_, _, _, _, _)
recordTimes(history, n, t, m, serial) ==
    IF n = 0 THEN history
    ELSE recordTimes(recordMetrics(history, MetricsSample(t, m, serial)), n - 1, t, m,
                     serial + 1)

\* options.startDate / options.endDate not passed
NoDate == -1

\* getLogs sorting this.logs itself instead of a copy
getLogsSortInPlace(l, options) ==
    LET f1 == IF options.service # ""
              THEN SelectSeq(l, LAMBDA e : e.service = options.service) ELSE l
        f2 == IF options.level # ""
              THEN SelectSeq(f1, LAMBDA e : e.level = options.level) ELSE f1
        f3 == IF options.startDate # NoDate
              THEN SelectSeq(f2, LAMBDA e : e.timestamp >= options.startDate) ELSE f2
        f4 == IF options.endDate # NoDate
              THEN SelectSeq(f3, LAMBDA e : e.timestamp <= options.endDate) ELSE f3
        f5 == IF options.correlationId # NoCorrelation
              THEN SelectSeq(f4, LAMBDA e : e.correlationId = options.correlationId)
              ELSE f4
        sorted == SortNewestFirst(f5)
    IN [returned |-> IF options.limit # 0 THEN SliceFirst(sorted, options.limit)
                     ELSE sorted,
        logs |-> SortNewestFirst(l)]

\* getLogs(options): what it returns and this.logs afterwards; a filter that is
\* undefined, '' or 0 is falsy and skipped (a Date is always truthy); the filters
\* and the sort work on the copy [...this.logs]
getLogs(l, options) ==
    LET f1 == IF options.service # ""
              THEN SelectSeq(l, LAMBDA e : e.service = options.service) ELSE l
        f2 == IF options.level # ""
              THEN SelectSeq(f1, LAMBDA e : e.level = options.level) ELSE f1
        f3 == IF options.startDate # NoDate
              THEN SelectSeq(f2, LAMBDA e : e.timestamp >= options.startDate) ELSE f2
        f4 == IF options.endDate # NoDate
              THEN SelectSeq(f3, LAMBDA e : e.timestamp <= options.endDate) ELSE f3
        f5 == IF options.correlationId # NoCorrelation
              THEN SelectSeq(f4, LAMBDA e : e.correlationId = options.correlationId)
              ELSE f4
        sorted == SortNewestFirst(f5)
    IN [returned |-> IF options.limit # 0 THEN SliceFirst(sorted, options.limit)
                     ELSE sorted,
        logs |-> l]

\* getMonitoringSummary(): the counts are taken over the values of this.healthChecks,
\* the request total over this.services (every registered executor has the metrics
\* m); averageResponseTime and errorRate, quotients of such sums, are left out
getMonitoringSummary(hc, l, svcs, m) ==
    LET snapshots == { name \in ServiceNames : hc[name].status # "none" }
        WithStatus(status) == Cardinality({ name \in snapshots : hc[name].status = status })
    IN [totalServices |-> Cardinality(snapshots),
        healthyServices |-> WithStatus("healthy"),
        degradedServices |-> WithStatus("degraded"),
        unhealthyServices |-> WithStatus("unhealthy"),
        totalLogs |-> Len(l),
        errorLogs |-> Len(SelectSeq(l, LAMBDA e : e.level = "error")),
        totalRequests |-> Len(svcs) * m.totalRequests]

\* a / b > num / den for integers a, b >= 0 with b > 0, as exact fractions
QuotientAbove(a, b, num, den) == a * den > num * b

\* the JavaScript test a / b < num / den: 0 / 0 is NaN and a / 0 is Infinity for
\* a > 0, and neither is below anything
QuotientBelow(a, b, num, den) == IF b = 0 THEN FALSE ELSE a * den < num * b

\* determineHealthStatus with its thresholds made inclusive
determineHealthStatusInclusive(healthy, m, recentErrors) ==
    IF ~healthy THEN "unhealthy"
    ELSE LET hasRate == m.totalRequests > 0
             avgResponseTime == m.averageResponseTime
         IN IF \/ hasRate /\ ~QuotientBelow(m.failedRequests, m.totalRequests, 1, 10)
               \/ avgResponseTime >= 10000
            THEN "unhealthy"
            ELSE IF \/ hasRate /\ ~QuotientBelow(m.failedRequests, m.totalRequests, 1, 20)
                    \/ avgResponseTime >= 5000
                    \/ Len(recentErrors) >= 3
            THEN "degraded"
            ELSE "healthy"

\* determineHealthStatus(healthResult, metrics, recentErrors); errorRate is
\* failedRequests / totalRequests when totalRequests > 0, else 0
determineHealthStatus(healthy, m, recentErrors) ==
    IF ~healthy THEN "unhealthy"
    ELSE LET hasRate == m.totalRequests > 0
             avgResponseTime == m.averageResponseTime
         IN IF \/ hasRate /\ QuotientAbove(m.failedRequests, m.totalRequests, 1, 10)
               \/ avgResponseTime > 10000
            THEN "unhealthy"
            ELSE IF \/ hasRate /\ QuotientAbove(m.failedRequests, m.totalRequests, 1, 20)
                    \/ avgResponseTime > 5000
                    \/ Len(recentErrors) > 3
            THEN "degraded"
            ELSE "healthy"

\* the checks array of the HealthCheck built in performHealthChecks, by check name
healthCheckChecks(healthy, m) ==
    [api_connectivity |-> IF healthy THEN "pass" ELSE "fail",
     error_rate |-> IF QuotientBelow(m.failedRequests, m.totalRequests, 1, 20)
                    THEN "pass" ELSE "fail",
     response_time |-> IF m.averageResponseTime < 5000 THEN "pass" ELSE "warn",
     rate_limit |-> IF m.rateLimitHits < 10 THEN "pass" ELSE "warn"]

\* healthChecks.get(name) is undefined
NoSnapshot ==
    [service |-> "", status |-> "none", timestamp |-> 0, metrics |-> InitMetrics,
     recentErrors |-> 0,
     checks |-> [api_connectivity |-> "", error_rate |-> "", response_time |-> "",
                 rate_limit |-> ""]]

\* the HealthCheck built in performHealthChecks at clock t; details.recentErrors is
\* kept as the number of entries; responseTime and activeConnections, which only
\* alert metadata reads, are left out
HealthCheck(serviceName, healthy, m, recentErrors, t) ==
    [service |-> serviceName,
     status |-> determineHealthStatus(healthy, m, recentErrors),
     timestamp |-> t,
     metrics |-> m,
     recentErrors |-> Len(recentErrors),
     checks |-> healthCheckChecks(healthy, m)]

\* alertCooldowns.get(cooldownKey) is undefined
NoAlert == -1

\* both alert checks using the `${serviceName}_error` key
cooldownKeySameSuffix(serviceName, kind) == <<serviceName, "error">>

\* `${serviceName}_error` and `${serviceName}_health`: one key per service and kind
cooldownKey(serviceName, kind) == <<serviceName, kind>>

CooldownKeys == (ServiceNames \cup {MonitorName}) \X {"error", "health"}

\* the (serviceName, alertType) pairs of the 'alert' events triggerAlert emits
AlertKinds == (ServiceNames \cup {MonitorName}) \X {"high_error_rate", "health_issue"}

\* the cooldown test with the comparison turned round
inCooldownInverted(lastAlert, t, cooldown) ==
    lastAlert # NoAlert /\ t - lastAlert > cooldown

\* lastAlert && Date.now() - lastAlert.getTime() < this.config.alertConfig.cooldown
inCooldown(lastAlert, t, cooldown) ==
    lastAlert # NoAlert /\ t - lastAlert < cooldown

\* triggerAlert's loop left after the first channel
RECURSIVE NextChannelFirstOnly(_, _)
NextChannelFirstOnly(channels, i) ==
    IF i >= 1 \/ i + 1 > Len(channels) THEN 0
    ELSE IF channels[i + 1] # "email" THEN i + 1
    ELSE NextChannelFirstOnly(channels, i + 1)

\* triggerAlert's loop: the next channel after index i whose delivery is awaited on
\* the network (0 when there is none); an 'email' channel is a console.log and is
\* done at once
RECURSIVE NextChannel(_, _)
NextChannel(channels, i) ==
    IF i + 1 > Len(channels) THEN 0
    ELSE IF channels[i + 1] # "email" THEN i + 1
    ELSE NextChannel(channels, i + 1)

\* the part of the monitor's state that log() and the alert checks change
MonState == [logs |-> logs, alertCooldowns |-> alertCooldowns, alerts |-> alerts,
             deliveries |-> deliveries]

\* the 'alert' events are observed through a record of the times of the last
\* AlertRecord of them per service and type
AlertRecord == 4

RecordAlert(fired, t) ==
    IF Len(fired) < AlertRecord THEN Append(fired, t) ELSE Append(Tail(fired), t)

\* triggerAlert up to its first await at clock t: emit 'alert', then start the
\* delivery to the first channel; gen tells the alerts of a chain apart: 0 for an
\* alert raised by a service, and for an alert raised by the failed delivery of
\* another alert the other value than that one's
triggerAlert(st, serviceName, alertType, t, cfg) ==
    LET first == NextChannel(cfg.channels, 0)
        task == [serviceName |-> serviceName, alertType |-> alertType,
                 timestamp |-> t, channel |-> first, gen |-> 0]
    IN [st EXCEPT !.alerts[<<serviceName, alertType>>] = RecordAlert(@, t),
                  !.deliveries = IF first # 0 THEN @ (+) SetToBag({task}) ELSE @]

\* checkAlerts restarting the cooldown on a suppressed trigger as well
checkAlertsRestartsCooldown(st, serviceName, t, cfg) ==
    IF ~cfg.alertEnabled THEN st
    ELSE LET key == cooldownKey(serviceName, "error") IN
         IF inCooldown(st.alertCooldowns[key], t, cfg.cooldown)
         THEN [st EXCEPT !.alertCooldowns[key] = t]
         ELSE [triggerAlert(st, serviceName, "high_error_rate", t, cfg)
                  EXCEPT !.alertCooldowns[key] = t]

\* checkAlerts(serviceName, logEntry) at clock t
checkAlerts(st, serviceName, t, cfg) ==
    IF ~cfg.alertEnabled THEN st
    ELSE LET key == cooldownKey(serviceName, "error") IN
         IF inCooldown(st.alertCooldowns[key], t, cfg.cooldown) THEN st
         ELSE [triggerAlert(st, serviceName, "high_error_rate", t, cfg)
                  EXCEPT !.alertCooldowns[key] = t]

\* checkHealthAlerts(serviceName, healthCheck) at clock t
checkHealthAlerts(st, serviceName, t, cfg) ==
    IF ~cfg.alertEnabled THEN st
    ELSE LET key == cooldownKey(serviceName, "health") IN
         IF inCooldown(st.alertCooldowns[key], t, cfg.cooldown) THEN st
         ELSE [triggerAlert(st, serviceName, "health_issue", t, cfg)
                  EXCEPT !.alertCooldowns[key] = t]

\* log(level, service, operation, message, metadata, correlationId, ...) at clock t
logWith(st, level, service, operation, correlationId, t, cfg) ==
    IF ~shouldLog(level, cfg) THEN st
    ELSE LET entry == [LogEntry(t, level, service, operation)
                          EXCEPT !.correlationId = correlationId]
             st1 == [st EXCEPT !.logs = addLogEntry(@, entry, t, cfg)]
         IN IF level = "error" THEN checkAlerts(st1, service, t, cfg) ELSE st1

\* log(level, service, operation, message, metadata) as the monitor itself calls it
log(st, level, service, operation, t, cfg) ==
    logWith(st, level, service, operation, NoCorrelation, t, cfg)

\* one log() call by each of the n listeners attached to an executor's event
RECURSIVE logTimes(_, _, _, _, _, _, _)
logTimes(st, n, level, service, operation, t, cfg) ==
    IF n = 0 THEN st
    ELSE logTimes(log(st, level, service, operation, t, cfg), n - 1,
                  level, service, operation, t, cfg)

\* no cycle of performHealthChecks is running
IdleCycle == [active |-> FALSE, idx |-> 0, name |-> "", last |-> "none"]

\* log retention (retentionPeriod days, in clock ticks) and the log cap
RetentionMs == 4
MaxLogs == 3

\* no interval timer has been created
NoTimers ==
    [health |-> FALSE, metrics |-> FALSE, active |-> [health |-> 0, metrics |-> 0],
     restarts |-> 0]

\* startMonitoring: two setInterval calls, whose handles replace the stored ones
startMonitoring(tm) ==
    [tm EXCEPT !.health = TRUE, !.metrics = TRUE,
               !.active = [health |-> @.health + 1, metrics |-> @.metrics + 1]]

\* stopMonitoring: clearInterval on each handle that is set, then the handle is unset
stopMonitoring(tm) ==
    [tm EXCEPT !.health = FALSE, !.metrics = FALSE,
               !.active = [health |-> IF tm.health THEN @.health - 1 ELSE @.health,
                           metrics |-> IF tm.metrics THEN @.metrics - 1 ELSE @.metrics]]

\* a field that a Partial<MonitoringConfig> does not carry
NoInterval == -1

\* newConfig.healthCheckInterval || newConfig.metricsInterval: given and not 0
IntervalGiven(newConfig) ==
    \/ newConfig.healthCheckInterval \notin {NoInterval, 0}
    \/ newConfig.metricsInterval \notin {NoInterval, 0}

\* { ...this.config, ...newConfig } for the two interval fields
mergeConfig(cfg, newConfig) ==
    [cfg EXCEPT !.healthCheckInterval =
                    IF newConfig.healthCheckInterval = NoInterval THEN @
                    ELSE newConfig.healthCheckInterval,
                !.metricsInterval =
                    IF newConfig.metricsInterval = NoInterval THEN @
                    ELSE newConfig.metricsInterval]

\* updateConfig starting new timers without stopping the old ones
updateConfigNoStop(tm, newConfig) ==
    IF IntervalGiven(newConfig)
    THEN [startMonitoring(tm) EXCEPT !.restarts = @ + 1]
    ELSE tm

\* updateConfig's restart: stopMonitoring then startMonitoring when an interval is given
updateConfig(tm, newConfig) ==
    IF IntervalGiven(newConfig)
    THEN [startMonitoring(stopMonitoring(tm)) EXCEPT !.restarts = @ + 1]
    ELSE tm

\* startMonitoring has set both intervals
TimersSet == startMonitoring(NoTimers)

\* no query has been made
NoAnswer == [query |-> "none"]

\* the metrics history, the timers and the queries as the constructor leaves them
AuxConstructed ==
    /\ metricsHistory = [name \in ServiceNames |-> <<>>]
    /\ recorded = [name \in ServiceNames |-> 0]
    /\ timers = TimersSet
    /\ answer = NoAnswer
    /\ logCalls = 0

\* the state the monitor's constructor leaves, for one configuration
MonitorConstructed(logLevel, maxLogEntries, alertEnabled, cooldown, channels) ==
    /\ monConfig = [logLevel |-> logLevel, maxLogEntries |-> maxLogEntries,
                    retentionMs |-> RetentionMs, alertEnabled |-> alertEnabled,
                    cooldown |-> cooldown, channels |-> channels]
    /\ services = <<>>
    /\ listeners = [name \in ServiceNames |-> 0]
    /\ logs = <<>>
    /\ healthChecks = [name \in ServiceNames |-> NoSnapshot]
    /\ alertCooldowns = [key \in CooldownKeys |-> NoAlert]
    /\ alerts = [a \in AlertKinds |-> <<>>]
    /\ deliveries = EmptyBag
    /\ cycle = IdleCycle
    /\ AuxConstructed

(* ---------------------------- construction ----------------------------- *)
\* configuration values, in clock ticks
WindowMs == 2
Ttl == 1
RetryDelay == 1

\* the state the constructor leaves, for one choice of the three configurations
\* and of the registered webhooks
Constructed(retryAttempts, maxRequests, enabled, maxSize, strategy, whs) ==
    /\ now = 0
    /\ config = [retryAttempts |-> retryAttempts, retryDelay |-> RetryDelay]
    /\ rateLimitConfig = [windowMs |-> WindowMs, maxRequests |-> maxRequests]
    /\ cacheConfig = [enabled |-> enabled, ttl |-> Ttl, maxSize |-> maxSize,
                      strategy |-> strategy]
    /\ metrics = InitMetrics
    /\ cache = <<>>
    /\ rateLimitTracker = <<>>
    /\ webhooks = whs
    /\ pc = [p \in Procs |-> "idle"]
    /\ call = [p \in Procs |-> IdleCall]
    /\ result = [p \in Procs |-> NoResult]
    /\ obs = [p \in Procs |-> IdleObs]
    /\ admitLog = <<>>
    /\ insOrder = <<>>
    /\ calls = 0
    /\ outcomes = [success |-> 0, failure |-> 0]
    /\ probes = [healthy |-> 0, unhealthy |-> 0, events |-> <<>>]

(* ------------------------------ actions -------------------------------- *)
\* the first iteration of makeRequestWithRetry's loop: count the attempt and send it
SendAttempt(m) == [m EXCEPT !.totalRequests = @ + 1]

\* request(cfg) up to its first await: cache lookup, then checkRateLimit up to its
\* delay, then (when admitted at once) the first attempt
Start(p, cfg) ==
    /\ pc[p] = "idle"
    /\ \A q \in Procs : q < p => pc[q] # "idle"
    /\ calls' = calls + 1
    /\ LET startTime == now
           cacheKey == generateCacheKey(cfg)
           lookup == cacheable(cacheConfig, cfg)
           got == getFromCache(cache, cacheKey, now, cacheConfig.ttl)
           hit == lookup /\ Truthy(got.ret)
           m1 == IF ~lookup THEN metrics ELSE countCacheLookup(metrics, hit)
           rl == checkRateLimit(rateLimitTracker, now, rateLimitConfig)
           m2 == IF rl.over THEN [m1 EXCEPT !.rateLimitHits = @ + 1] ELSE m1
           c1 == IF lookup THEN got.cache ELSE cache
           o1 == [IdleObs EXCEPT !.cached = IF lookup THEN got.ret ELSE @,
                                 !.counted = (m1.cacheHits + m1.cacheMisses)
                                             - (metrics.cacheHits + metrics.cacheMisses),
                                 !.dropped = CacheKeys(cache) \ CacheKeys(c1)]
       IN /\ cache' = c1
          /\ insOrder' = IF lookup
                          THEN SelectSeq(insOrder, LAMBDA k : CacheHas(got.cache, k))
                          ELSE insOrder
          /\ IF hit
             THEN /\ pc' = [pc EXCEPT ![p] = "done"]
                  /\ result' = [result EXCEPT ![p] = CachedResult(got.ret.data, now - startTime)]
                  /\ outcomes' = [outcomes EXCEPT !.success = @ + 1]
                  /\ call' = [call EXCEPT ![p] = [IdleCall EXCEPT !.cfg = cfg, !.startTime = startTime]]
                  /\ obs' = [obs EXCEPT ![p] = o1]
                  /\ metrics' = m1
                  /\ UNCHANGED <<rateLimitTracker, admitLog>>
             ELSE IF rl.over /\ rl.waitTime > 0
             THEN /\ pc' = [pc EXCEPT ![p] = "rlwait"]
                  /\ call' = [call EXCEPT ![p] =
                                [IdleCall EXCEPT !.cfg = cfg,
                                                 !.startTime = startTime,
                                                 !.requests = rl.requests,
                                                 !.entryNow = now,
                                                 !.wakeAt = now + rl.waitTime]]
                  /\ obs' = [obs EXCEPT ![p] = [o1 EXCEPT !.waited = TRUE]]
                  /\ metrics' = m2
                  /\ UNCHANGED <<result, rateLimitTracker, admitLog, outcomes>>
             ELSE /\ pc' = [pc EXCEPT ![p] = "inflight"]
                  /\ rateLimitTracker' =
                        rateLimitSet(rateLimitTracker,
                                     Append(rl.requests, admitStamp(now, now)))
                  /\ admitLog' = Append(admitLog, now)
                  /\ call' = [call EXCEPT ![p] = [IdleCall EXCEPT !.cfg = cfg, !.startTime = startTime]]
                  /\ obs' = [obs EXCEPT ![p] = [o1 EXCEPT !.attempts = 1,
                                                           !.stamp = admitStamp(now, now),
                                                           !.passedAt = now]]
                  /\ metrics' = SendAttempt(m2)
                  /\ UNCHANGED <<result, outcomes>>
    /\ UNCHANGED monVars
    /\ UNCHANGED probes
    /\ UNCHANGED <<now, config, rateLimitConfig, cacheConfig, webhooks>>

\* the delay of checkRateLimit has elapsed: push, set, return; then the first attempt
RateLimitWake(p) ==
    /\ pc[p] = "rlwait"
    /\ now >= call[p].wakeAt
    /\ rateLimitTracker' =
          rateLimitSet(rateLimitTracker,
                       Append(call[p].requests, admitStamp(call[p].entryNow, now)))
    /\ admitLog' = Append(admitLog, now)
    /\ pc' = [pc EXCEPT ![p] = "inflight"]
    /\ call' = [call EXCEPT ![p].requests = <<>>, ![p].entryNow = 0, ![p].wakeAt = 0]
    /\ obs' = [obs EXCEPT ![p].attempts = 1,
                          ![p].stamp = admitStamp(call[p].entryNow, now),
                          ![p].passedAt = now]
    /\ metrics' = SendAttempt(metrics)
    /\ UNCHANGED monVars
    /\ UNCHANGED probes
    /\ UNCHANGED <<now, config, rateLimitConfig, cacheConfig, cache, webhooks, result,
                   insOrder, calls, outcomes>>

\* the attempt in flight resolves with status 200 and body d: recordSuccess in the
\* response interceptor, return out of the retry loop, setCache, return the Result
RespondSuccess(p, d) ==
    /\ pc[p] = "inflight"
    /\ metrics' = recordSuccess(metrics)
    /\ LET cfg == call[p].cfg
           cacheKey == generateCacheKey(cfg)
           store == cacheable(cacheConfig, cfg)
           evicted == IF Len(cache) >= cacheConfig.maxSize
                      THEN evictFromCache(cache, now, cacheConfig.strategy)
                      ELSE cache
           kept == SelectSeq(insOrder, LAMBDA k : CacheHas(evicted, k))
       IN /\ cache' = IF store THEN setCache(cache, cacheKey, d, now, cacheConfig)
                      ELSE cache
          /\ insOrder' = IF ~store THEN insOrder
                          ELSE IF CacheHas(evicted, cacheKey) THEN kept
                          ELSE Append(kept, cacheKey)
          /\ obs' = [obs EXCEPT ![p].lastOk = TRUE,
                                ![p].events = Append(@, SuccessEvent(200, cfg)),
                                ![p].evicted = IF store
                                               THEN CacheKeys(cache) \ CacheKeys(evicted)
                                               ELSE {}]
    /\ result' = [result EXCEPT ![p] = SuccessResult(d, 200, now - call[p].startTime)]
    /\ outcomes' = [outcomes EXCEPT !.success = @ + 1]
    /\ pc' = [pc EXCEPT ![p] = "done"]
    /\ UNCHANGED monVars
    /\ UNCHANGED probes
    /\ UNCHANGED <<now, config, rateLimitConfig, cacheConfig, rateLimitTracker, webhooks,
                   call, admitLog, calls>>

\* the attempt in flight rejects with error: recordFailure in the response
\* interceptor, then the catch of the retry loop; after the last attempt the error is
\* thrown into the catch of request, which starts emitWebhook('api_failure')
RespondFailure(p, error) ==
    /\ pc[p] = "inflight"
    /\ metrics' = recordFailure(metrics, error)
    /\ LET lastError == keepLastError(call[p].lastError, error)
           first == NextWebhook(webhooks, 0, "api_failure")
           o1 == [obs[p] EXCEPT !.errs = Append(@, error), !.lastOk = FALSE,
                                !.events = Append(@, FailureEvent(error, call[p].cfg))]
       IN IF retryAgain(call[p].attempt, config.retryAttempts)
          THEN /\ pc' = [pc EXCEPT ![p] = "backoff"]
               /\ call' = [call EXCEPT ![p].lastError = lastError,
                                       ![p].wakeAt = now + backoffDelay(call[p].attempt,
                                                                        config.retryDelay)]
               /\ obs' = [obs EXCEPT ![p] = o1]
               /\ UNCHANGED <<result, outcomes>>
          ELSE IF first # 0
          THEN /\ pc' = [pc EXCEPT ![p] = "webhook"]
               /\ call' = [call EXCEPT ![p].lastError = lastError, ![p].whIdx = first]
               /\ obs' = [obs EXCEPT ![p] = o1]
               /\ UNCHANGED <<result, outcomes>>
          ELSE /\ pc' = [pc EXCEPT ![p] = "done"]
               /\ call' = [call EXCEPT ![p].lastError = lastError]
               /\ obs' = [obs EXCEPT ![p] = o1]
               /\ result' = [result EXCEPT ![p] =
                                FailureResult(lastError, now - call[p].startTime)]
               /\ outcomes' = [outcomes EXCEPT !.failure = @ + 1]
    /\ UNCHANGED monVars
    /\ UNCHANGED probes
    /\ UNCHANGED <<now, config, rateLimitConfig, cacheConfig, cache, rateLimitTracker,
                   webhooks, admitLog, insOrder, calls>>

\* the backoff delay has elapsed: attempt++ and the next attempt is sent
BackoffWake(p) ==
    /\ pc[p] = "backoff"
    /\ now >= call[p].wakeAt
    /\ pc' = [pc EXCEPT ![p] = "inflight"]
    /\ call' = [call EXCEPT ![p].attempt = @ + 1, ![p].wakeAt = 0]
    /\ obs' = [obs EXCEPT ![p].attempts = @ + 1]
    /\ metrics' = SendAttempt(metrics)
    /\ UNCHANGED monVars
    /\ UNCHANGED probes
    /\ UNCHANGED <<now, config, rateLimitConfig, cacheConfig, cache, rateLimitTracker,
                   webhooks, result, admitLog, insOrder, calls, outcomes>>

\* the delivery awaited in emitWebhook settles (delivered or not); the loop goes on
\* to the next matching subscription, and after the last one request returns
WebhookSettle(p, delivered) ==
    /\ pc[p] = "webhook"
    /\ LET next == NextWebhook(webhooks, call[p].whIdx, "api_failure")
           o1 == [obs[p] EXCEPT !.whTried =
                                    @ + sendWebhook(webhooks[call[p].whIdx], delivered),
                                !.whFailed = IF delivered THEN @ ELSE @ + 1,
                                !.whSent = Append(@, webhooks[call[p].whIdx].id)]
       IN IF emitWebhookCatch(delivered) = "throw"
          THEN /\ pc' = [pc EXCEPT ![p] = "rejected"]
               /\ call' = [call EXCEPT ![p].whIdx = 0]
               /\ obs' = [obs EXCEPT ![p] = o1]
               /\ UNCHANGED <<result, outcomes>>
          ELSE IF next # 0
          THEN /\ pc' = pc
               /\ call' = [call EXCEPT ![p].whIdx = next]
               /\ obs' = [obs EXCEPT ![p] = o1]
               /\ UNCHANGED <<result, outcomes>>
          ELSE /\ pc' = [pc EXCEPT ![p] = "done"]
               /\ call' = [call EXCEPT ![p].whIdx = 0]
               /\ obs' = [obs EXCEPT ![p] = o1]
               /\ result' = [result EXCEPT ![p] =
                                FailureResult(call[p].lastError, now - call[p].startTime)]
               /\ outcomes' = [outcomes EXCEPT !.failure = @ + 1]
    /\ UNCHANGED monVars
    /\ UNCHANGED probes
    /\ UNCHANGED <<now, config, rateLimitConfig, cacheConfig, metrics, cache,
                   rateLimitTracker, webhooks, admitLog, insOrder, calls>>

\* the caller takes the settled Result; the slot is free for the next call
Return(p) ==
    /\ pc[p] = "done"
    /\ pc' = [pc EXCEPT ![p] = "idle"]
    /\ call' = [call EXCEPT ![p] = IdleCall]
    /\ result' = [result EXCEPT ![p] = NoResult]
    /\ obs' = [obs EXCEPT ![p] = IdleObs]
    /\ UNCHANGED monVars
    /\ UNCHANGED probes
    /\ UNCHANGED <<now, config, rateLimitConfig, cacheConfig, metrics, cache,
                   rateLimitTracker, webhooks, admitLog, insOrder, calls, outcomes>>

\* a timer of delay() that has not fired yet
TimerPending(p) == pc[p] \in {"rlwait", "backoff"} /\ call[p].wakeAt > now

\* the clock advances by one tick
Tick ==
    /\ now < MaxTime \/ \E p \in Procs : TimerPending(p)
    /\ now' = now + 1
    /\ admitLog' = SelectSeq(admitLog, LAMBDA t : t > now + 1 - rateLimitConfig.windowMs)
    /\ UNCHANGED monVars
    /\ UNCHANGED probes
    /\ UNCHANGED <<config, rateLimitConfig, cacheConfig, metrics, cache, rateLimitTracker,
                   webhooks, pc, call, result, obs, insOrder, calls, outcomes>>

\* healthCheck() settles: `await this.axiosInstance.get('/health')` goes through the
\* response interceptor, which runs recordSuccess or recordFailure (and their emit)
\* before healthCheck returns {healthy, details}
HealthCheckSettle(healthy, error) ==
    /\ metrics' = IF healthy THEN recordSuccess(metrics) ELSE recordFailure(metrics, error)
    /\ probes' = IF healthy
                 THEN [probes EXCEPT !.healthy = @ + 1,
                                     !.events = Append(@, "api_success")]
                 ELSE [probes EXCEPT !.unhealthy = @ + 1,
                                     !.events = Append(@, "api_failure")]
    /\ UNCHANGED monVars
    /\ UNCHANGED <<now, config, rateLimitConfig, cacheConfig, cache, rateLimitTracker,
                   webhooks, pc, call, result, obs, admitLog, insOrder, calls, outcomes>>

(* --------------------------- monitor actions --------------------------- *)
\* the executor's state apart from the clock
execVars == <<config, rateLimitConfig, cacheConfig, metrics, cache, rateLimitTracker,
              webhooks, pc, call, result, obs, admitLog, insOrder, calls, outcomes,
              probes>>

\* the monitor's state after log() and the alert checks have run
SetMonState(st) ==
    /\ logs' = st.logs
    /\ alertCooldowns' = st.alertCooldowns
    /\ alerts' = st.alerts
    /\ deliveries' = st.deliveries

Registered(name) == \E i \in 1..Len(services) : services[i] = name

\* registerService(name, service): Map.set, one more set of listeners on the
\* executor's events, and the registration log entry
RegisterService(name) ==
    /\ services' = IF Registered(name) THEN services ELSE Append(services, name)
    /\ listeners' = [listeners EXCEPT ![name] = @ + 1]
    /\ metricsHistory' = [metricsHistory EXCEPT ![name] = <<>>]
    /\ recorded' = [recorded EXCEPT ![name] = 0]
    /\ SetMonState(log(MonState, "info", name, "service_registration", now, monConfig))
    /\ UNCHANGED <<now, monConfig, healthChecks, cycle, timers, answer, logCalls>>
    /\ UNCHANGED execVars

\* unregisterService(name): the three Map.delete calls and the log entry; the
\* listeners on the executor stay attached, and a cycle suspended on a probe keeps
\* its serviceName while the Map iterator goes on with the entries that remain
UnregisterService(name) ==
    /\ services' = SelectSeq(services, LAMBDA n : n # name)
    /\ metricsHistory' = [metricsHistory EXCEPT ![name] = <<>>]
    /\ recorded' = [recorded EXCEPT ![name] = 0]
    /\ healthChecks' = [healthChecks EXCEPT ![name] = NoSnapshot]
    /\ SetMonState(log(MonState, "info", name, "service_unregistration", now, monConfig))
    /\ cycle' = IF cycle.active
                   /\ \E i \in 1..cycle.idx : i <= Len(services) /\ services[i] = name
                THEN [cycle EXCEPT !.idx = @ - 1]
                ELSE cycle
    /\ UNCHANGED <<now, monConfig, listeners, timers, answer, logCalls>>
    /\ UNCHANGED execVars

\* the executor registered as name emits 'api_failure': each listener attached by
\* registerService logs an error entry
ApiFailure(name) ==
    /\ listeners[name] > 0
    /\ SetMonState(logTimes(MonState, listeners[name], "error", name, "api_request",
                            now, monConfig))
    /\ UNCHANGED <<now, monConfig, services, listeners, healthChecks, cycle>>
    /\ UNCHANGED auxVars
    /\ UNCHANGED execVars

\* the executor registered as name emits 'api_success': each listener attached by
\* registerService logs an info entry
\* clearLogs(); clearing an empty store changes nothing
ClearLogs ==
    /\ logs # <<>>
    /\ logs' = <<>>
    /\ UNCHANGED <<now, monConfig, services, listeners, healthChecks, alertCooldowns,
                   alerts, deliveries, cycle>>
    /\ UNCHANGED auxVars
    /\ UNCHANGED execVars

ApiSuccess(name) ==
    /\ listeners[name] > 0
    /\ SetMonState(logTimes(MonState, listeners[name], "info", name, "api_request",
                            now, monConfig))
    /\ UNCHANGED <<now, monConfig, services, listeners, healthChecks, cycle>>
    /\ UNCHANGED auxVars
    /\ UNCHANGED execVars

\* the executor registered as name emits 'metrics_update' (its own one-minute timer):
\* each listener attached by registerService calls recordMetrics
MetricsUpdate(name) ==
    /\ listeners[name] > 0
    /\ metricsHistory' = [metricsHistory EXCEPT ![name] =
                             recordTimes(@, listeners[name], now, metrics,
                                         recorded[name] + 1)]
    /\ recorded' = [recorded EXCEPT ![name] = @ + listeners[name]]
    /\ UNCHANGED <<now, monConfig, services, listeners, logs, healthChecks,
                   alertCooldowns, alerts, deliveries, cycle, timers, answer, logCalls>>
    /\ UNCHANGED execVars

\* the metrics timer fires: collectMetrics records one sample for every registered
\* service
CollectMetrics ==
    /\ timers.metrics
    /\ services # <<>>
    /\ metricsHistory' = [name \in ServiceNames |->
                             IF Registered(name)
                             THEN recordTimes(metricsHistory[name], 1, now, metrics,
                                              recorded[name] + 1)
                             ELSE metricsHistory[name]]
    /\ recorded' = [name \in ServiceNames |->
                       IF Registered(name) THEN recorded[name] + 1 ELSE recorded[name]]
    /\ UNCHANGED <<now, monConfig, services, listeners, logs, healthChecks,
                   alertCooldowns, alerts, deliveries, cycle, timers, answer, logCalls>>
    /\ UNCHANGED execVars

\* a caller's getMonitoringSummary()
GetMonitoringSummary ==
    /\ answer' = [query |-> "getMonitoringSummary",
                  returned |-> getMonitoringSummary(healthChecks, logs, services, metrics)]
    /\ UNCHANGED <<now, monConfig, services, listeners, logs, healthChecks,
                   alertCooldowns, alerts, deliveries, cycle>>
    /\ UNCHANGED <<metricsHistory, recorded, timers, logCalls>>
    /\ UNCHANGED execVars

\* stopMonitoring(): clearInterval on both timers; a cycle that is suspended on a
\* probe is not touched
StopMonitoring ==
    /\ timers.health \/ timers.metrics
    /\ timers' = stopMonitoring(timers)
    /\ UNCHANGED <<now, monConfig, services, listeners, logs, healthChecks,
                   alertCooldowns, alerts, deliveries, cycle>>
    /\ UNCHANGED <<metricsHistory, recorded, answer, logCalls>>
    /\ UNCHANGED execVars

\* updateConfig(newConfig): the merge, and the restart when an interval is given
UpdateConfig(newConfig) ==
    /\ monConfig' = mergeConfig(monConfig, newConfig)
    /\ timers' = updateConfig(timers, newConfig)
    /\ UNCHANGED <<now, services, listeners, logs, healthChecks, alertCooldowns, alerts,
                   deliveries, cycle>>
    /\ UNCHANGED <<metricsHistory, recorded, answer, logCalls>>
    /\ UNCHANGED execVars

\* a caller's log(level, service, 'operation', ..., correlationId)
Log(level, service, correlationId) ==
    /\ logCalls' = logCalls + 1
    /\ SetMonState(logWith(MonState, level, service, "operation", correlationId, now,
                           monConfig))
    /\ UNCHANGED <<now, monConfig, services, listeners, healthChecks, cycle>>
    /\ UNCHANGED <<metricsHistory, recorded, timers, answer>>
    /\ UNCHANGED execVars

\* a caller's getLogs(options)
GetLogs(options) ==
    /\ LET got == getLogs(logs, options)
       IN /\ answer' = [query |-> "getLogs", options |-> options,
                        returned |-> got.returned]
          /\ logs' = got.logs
    /\ UNCHANGED <<now, monConfig, services, listeners, healthChecks, alertCooldowns,
                   alerts, deliveries, cycle>>
    /\ UNCHANGED <<metricsHistory, recorded, timers, logCalls>>
    /\ UNCHANGED execVars

\* the health-check timer fires: performHealthChecks runs up to the await on the
\* first service's probe (cycles do not overlap: the interval is longer than the
\* probes of one cycle take)
CycleStart ==
    /\ timers.health
    /\ ~cycle.active
    /\ services # <<>>
    /\ cycle' = [active |-> TRUE, idx |-> 1, name |-> services[1], last |-> "none"]
    /\ UNCHANGED <<now, monConfig, services, listeners, logs, healthChecks,
                   alertCooldowns, alerts, deliveries>>
    /\ UNCHANGED auxVars
    /\ UNCHANGED execVars

\* the probe awaited by the cycle settles: it resolved healthy or not, with the
\* executor's metrics m, or the try block threw; the snapshot is stored and the
\* health alert checked, or the catch logs; then the loop goes on to the next service
ProbeSettle(outcome, m) ==
    /\ cycle.active
    /\ LET serviceName == cycle.name
           recentErrors == getRecentErrors(logs, serviceName, 5)
           healthCheck == HealthCheck(serviceName, outcome = "healthy", m,
                                      recentErrors, now)
           st == IF outcome = "throws"
                 THEN log(MonState, "error", serviceName, "health_check", now, monConfig)
                 ELSE IF healthCheck.status # "healthy"
                 THEN checkHealthAlerts(MonState, serviceName, now, monConfig)
                 ELSE MonState
       IN /\ healthChecks' = IF outcome = "throws" THEN healthChecks
                             ELSE [healthChecks EXCEPT ![serviceName] = healthCheck]
          /\ SetMonState(st)
          /\ cycle' = IF cycle.idx < Len(services)
                      THEN [active |-> TRUE, idx |-> cycle.idx + 1,
                            name |-> services[cycle.idx + 1], last |-> outcome]
                      ELSE [active |-> FALSE, idx |-> 0, name |-> "", last |-> outcome]
    /\ UNCHANGED <<now, monConfig, services, listeners>>
    /\ UNCHANGED auxVars
    /\ UNCHANGED execVars

\* the channel delivery awaited by the suspended triggerAlert call task settles; a
\* failed one is logged in the catch; then the loop goes on to the next channel
ChannelSettle(task, ok) ==
    /\ BagIn(task, deliveries)
    /\ LET next == NextChannel(monConfig.channels, task.channel)
           st1 == IF ok THEN MonState
                  ELSE log(MonState, "error", MonitorName, "alert_delivery", now, monConfig)
           spawned == BagToSet(st1.deliveries (-) deliveries)
           chained == SetToBag({ [t EXCEPT !.gen = 1 - task.gen] : t \in spawned })
           left == (deliveries (-) SetToBag({task})) (+) chained
           moved == IF next # 0
                    THEN left (+) SetToBag({[task EXCEPT !.channel = next]})
                    ELSE left
       IN SetMonState([st1 EXCEPT !.deliveries = moved])
    /\ UNCHANGED <<now, monConfig, services, listeners, healthChecks, cycle>>
    /\ UNCHANGED auxVars
    /\ UNCHANGED execVars

(* --------------------------- specifications --------------------------- *)
\* request calls issued in one behaviour of the whole pipeline, and of the retry path
PipelineCalls == 2
RetryCalls == 2

GetConfigs == { cfg \in Configs : IsGet(cfg) }
PostConfigs == { cfg \in Configs : ~IsGet(cfg) }

\* The whole pipeline: every configuration dimension at its tightest value, so that
\* cache hits, waits for the rate limiter, retries and webhook deliveries all occur
\* within PipelineCalls calls.
TightWebhooks ==
    << [id |-> "w1", events |-> {"api_failure"}, maxRetries |-> 3],
       [id |-> "w2", events |-> {"payment"}, maxRetries |-> 0],
       [id |-> "w3", events |-> {"api_failure", "payment"}, maxRetries |-> 1] >>

\* the executor on its own: a monitor that no service is registered with
NoMonitor == MonitorConstructed("info", MaxLogs, FALSE, 1, <<>>)

Init == Constructed(1, 1, TRUE, 1, "lru", TightWebhooks) /\ NoMonitor

Next ==
    \/ \E p \in Procs, cfg \in Configs : calls < PipelineCalls /\ Start(p, cfg)
    \/ \E p \in Procs : RateLimitWake(p)
    \/ \E p \in Procs, d \in Datas : RespondSuccess(p, d)
    \/ \E p \in Procs, error \in Errors : RespondFailure(p, error)
    \/ \E p \in Procs : BackoffWake(p)
    \/ \E p \in Procs, delivered \in BOOLEAN : WebhookSettle(p, delivered)
    \/ \E p \in Procs : Return(p)
    \/ Tick

Spec == Init /\ [][Next]_vars

\* The cache: GET calls that succeed, under every strategy and maxSize; the rate
\* budget is never reached.
InitCache ==
    \E maxSize \in 1..MaxCacheSize, strategy \in Strategies :
        Constructed(0, MaxCalls + 1, TRUE, maxSize, strategy, <<>>) /\ NoMonitor

NextCache ==
    \/ \E p \in Procs, cfg \in GetConfigs : calls < MaxCalls /\ Start(p, cfg)
    \/ \E p \in Procs, d \in Datas : RespondSuccess(p, d)
    \/ \E p \in Procs : Return(p)
    \/ Tick

SpecCache == InitCache /\ [][NextCache]_vars

\* The rate limiter: uncached calls that succeed, under every budget.
InitRate ==
    \E maxRequests \in 1..MaxBudget :
        Constructed(0, maxRequests, FALSE, 1, "lru", <<>>) /\ NoMonitor

NextRate ==
    \/ \E p \in Procs, cfg \in PostConfigs : calls < MaxCalls /\ Start(p, cfg)
    \/ \E p \in Procs : RateLimitWake(p)
    \/ \E p \in Procs : RespondSuccess(p, 1)
    \/ \E p \in Procs : Return(p)
    \/ Tick

SpecRate == InitRate /\ [][NextRate]_vars

\* timers fire and the clock advances: the event loop runs every expired timer
FairRate ==
    /\ SpecRate
    /\ WF_vars(Tick)
    /\ \A p \in Procs : WF_vars(RateLimitWake(p))

\* Retry and failure handling: uncached calls under every retryAttempts and every
\* webhook setup; the rate budget is never reached.
InitRetry ==
    \E retryAttempts \in 0..MaxRetry, whs \in WebhookSetups :
        Constructed(retryAttempts, RetryCalls + 1, FALSE, 1, "lru", whs) /\ NoMonitor

NextRetry ==
    \/ \E p \in Procs, cfg \in PostConfigs : calls < RetryCalls /\ Start(p, cfg)
    \/ \E p \in Procs : RespondSuccess(p, 1)
    \/ \E p \in Procs, error \in Errors : RespondFailure(p, error)
    \/ \E p \in Procs : BackoffWake(p)
    \/ \E p \in Procs, delivered \in BOOLEAN : WebhookSettle(p, delivered)
    \/ \E p \in Procs : Return(p)
    \/ Tick

SpecRetry == InitRetry /\ [][NextRetry]_vars

\* Overload: NumProcs concurrent GET calls, each on its own promise, against a
\* budget of one request per window; attempts succeed or fail.
InitOverload ==
    Constructed(0, 1, TRUE, MaxCacheSize, "lru", <<>>) /\ NoMonitor

NextOverload ==
    \/ \E p \in Procs, cfg \in GetConfigs : calls < NumProcs /\ Start(p, cfg)
    \/ \E p \in Procs : RateLimitWake(p)
    \/ \E p \in Procs, d \in Datas : RespondSuccess(p, d)
    \/ \E p \in Procs, error \in Errors : RespondFailure(p, error)
    \/ Tick

SpecOverload == InitOverload /\ [][NextOverload]_vars

\* Backoff: one uncached call at a time whose attempts fail up to BackoffRetries + 1
\* times in a row, so that the first three delays of the schedule are taken.
BackoffRetries == 3

InitBackoff ==
    \E retryAttempts \in 0..BackoffRetries :
        Constructed(retryAttempts, RetryCalls + 1, FALSE, 1, "lru", <<>>) /\ NoMonitor

NextBackoff ==
    \/ \E p \in Procs, cfg \in PostConfigs : calls < RetryCalls /\ p = 1 /\ Start(p, cfg)
    \/ \E p \in Procs : RespondSuccess(p, 1)
    \/ \E p \in Procs, error \in Errors : RespondFailure(p, error)
    \/ \E p \in Procs : BackoffWake(p)
    \/ \E p \in Procs : Return(p)
    \/ Tick

SpecBackoff == InitBackoff /\ [][NextBackoff]_vars

\* Health probes: healthCheck() calls that succeed or fail, next to uncached
\* request calls that succeed or fail without retry.
MaxProbes == 2
ProbeCalls == 2

InitProbe == Constructed(0, ProbeCalls + 1, FALSE, 1, "lru", <<>>) /\ NoMonitor

NextProbe ==
    \/ \E p \in Procs, cfg \in PostConfigs : calls < ProbeCalls /\ Start(p, cfg)
    \/ \E p \in Procs : RespondSuccess(p, 1)
    \/ \E p \in Procs, error \in Errors : RespondFailure(p, error)
    \/ \E p \in Procs : Return(p)
    \/ \E healthy \in BOOLEAN, error \in Errors :
          /\ probes.healthy + probes.unhealthy < MaxProbes
          /\ HealthCheckSettle(healthy, error)

SpecProbe == InitProbe /\ [][NextProbe]_vars

\* Cache writes: calls of every method that succeed or fail, with caching enabled
\* and disabled; no retry, and the rate budget is never reached.
WriteCalls == 3

InitWrite ==
    \E enabled \in BOOLEAN :
        Constructed(0, WriteCalls + 1, enabled, MaxCacheSize, "lru", <<>>) /\ NoMonitor

NextWrite ==
    \/ \E p \in Procs, cfg \in Configs : calls < WriteCalls /\ Start(p, cfg)
    \/ \E p \in Procs, d \in Datas : RespondSuccess(p, d)
    \/ \E p \in Procs, error \in Errors : RespondFailure(p, error)
    \/ \E p \in Procs : Return(p)
    \/ Tick

SpecWrite == InitWrite /\ [][NextWrite]_vars

\* Health evaluation: one registered service whose log holds 0..MaxRecentErrors
\* error entries, probed with every combination of probe result and metrics around
\* the thresholds; alerting is off.
MaxRecentErrors == 5

\* the executor's metrics as getMetrics() returns them to the monitor
MetricSamples ==
    { [InitMetrics EXCEPT !.totalRequests = total, !.failedRequests = failed,
                          !.averageResponseTime = avg, !.rateLimitHits = hits] :
        total \in {0, 20}, failed \in 0..3,
        avg \in {0, 5000, 5001, 10000, 10001}, hits \in {9, 10} }

ReachableSamples == { m \in MetricSamples : m.failedRequests <= m.totalRequests }

\* the executor is idle while the monitor runs
ExecutorIdle == Constructed(0, 1, FALSE, 1, "lru", <<>>)

InitHealth ==
    /\ ExecutorIdle
    /\ monConfig = [logLevel |-> "info", maxLogEntries |-> MaxRecentErrors + 1,
                    retentionMs |-> RetentionMs, alertEnabled |-> FALSE,
                    cooldown |-> 1, channels |-> <<>>]
    /\ services = <<"A">>
    /\ listeners = [name \in ServiceNames |-> IF name = "A" THEN 1 ELSE 0]
    /\ healthChecks = [name \in ServiceNames |-> NoSnapshot]
    /\ alertCooldowns = [key \in CooldownKeys |-> NoAlert]
    /\ alerts = [a \in AlertKinds |-> <<>>]
    /\ deliveries = EmptyBag
    /\ cycle = IdleCycle
    /\ AuxConstructed
    /\ \E k \in 0..MaxRecentErrors :
          logs = <<LogEntry(0, "info", "A", "service_registration")>>
                    \o [i \in 1..k |-> LogEntry(0, "error", "A", "api_request")]

NextHealth ==
    \/ CycleStart
    \/ \E healthy \in {"healthy", "unhealthy"}, m \in ReachableSamples :
          ProbeSettle(healthy, m)
    \/ Tick

SpecHealth == InitHealth /\ [][NextHealth]_vars

\* Alerting: services registered at run time, error events and health cycles; the
\* cooldown spans Cooldown clock ticks and no channel is configured.
Cooldown == 2
AlertLogs == 2

\* metrics of a quiet executor
AlertSamples == { InitMetrics }

InitAlert ==
    /\ ExecutorIdle
    /\ MonitorConstructed("error", AlertLogs, TRUE, Cooldown, <<>>)

NextAlert ==
    \/ \E name \in ServiceNames : ~Registered(name) /\ RegisterService(name)
    \/ \E name \in ServiceNames : ApiFailure(name)
    \/ CycleStart
    \/ \E outcome \in {"healthy", "unhealthy"}, m \in AlertSamples :
          ProbeSettle(outcome, m)
    \/ Tick

SpecAlert == InitAlert /\ [][NextAlert]_vars

\* Failures inside the monitor: health cycles whose probes may throw and alert
\* channels whose deliveries may fail.
ChannelSetups == { <<"webhook">>, <<"slack", "email", "webhook">> }

\* how a probe may settle: it resolves healthy or its try block throws
ProbeOutcomes == {"healthy", "throws"}

InitFailing ==
    /\ ExecutorIdle
    /\ \E channels \in ChannelSetups :
          MonitorConstructed("error", MaxLogs, TRUE, 1, channels)

NextFailing ==
    \/ \E name \in ServiceNames : ~Registered(name) /\ RegisterService(name)
    \/ CycleStart
    \/ \E outcome \in ProbeOutcomes, m \in AlertSamples : ProbeSettle(outcome, m)
    \/ \E task \in BagToSet(deliveries), ok \in BOOLEAN : ChannelSettle(task, ok)

SpecFailing == InitFailing /\ [][NextFailing]_vars

\* The log store: callers log under every cap 1..MaxLogs and every retention period
\* 1..MaxTime while the clock advances; alerting is off.
MaxLogCalls == 4

InitStore ==
    /\ ExecutorIdle
    /\ \E maxLogEntries \in 1..MaxLogs, retentionMs \in 1..MaxTime :
          monConfig = [logLevel |-> "info", maxLogEntries |-> maxLogEntries,
                       retentionMs |-> retentionMs, alertEnabled |-> FALSE,
                       cooldown |-> 1, channels |-> <<>>]
    /\ services = <<>>
    /\ listeners = [name \in ServiceNames |-> 0]
    /\ logs = <<>>
    /\ healthChecks = [name \in ServiceNames |-> NoSnapshot]
    /\ alertCooldowns = [key \in CooldownKeys |-> NoAlert]
    /\ alerts = [a \in AlertKinds |-> <<>>]
    /\ deliveries = EmptyBag
    /\ cycle = IdleCycle
    /\ AuxConstructed

NextStore ==
    \/ \E level \in {"info", "error"}, service \in ServiceNames :
          logCalls < MaxLogCalls /\ Log(level, service, NoCorrelation)
    \/ Tick

SpecStore == InitStore /\ [][NextStore]_vars

\* Log queries: callers log up to MaxLogs entries with and without a correlation id
\* while the clock advances, then query the store with any combination of filters.
MaxLimit == 2

QueryOptions ==
    [service : {"", "A"}, level : {"", "error"}, startDate : {NoDate, 1},
     endDate : {NoDate, 1}, limit : 0..MaxLimit, correlationId : {NoCorrelation, "c1"}]

InitQuery ==
    /\ ExecutorIdle
    /\ MonitorConstructed("info", MaxLogs, FALSE, 1, <<>>)

NextQuery ==
    \/ \E level \in {"info", "error"}, service \in ServiceNames,
          correlationId \in {NoCorrelation, "c1"} :
          /\ logCalls < MaxLogs /\ answer = NoAnswer
          /\ Log(level, service, correlationId)
    \/ answer = NoAnswer /\ Tick
    \/ \E options \in QueryOptions : answer = NoAnswer /\ GetLogs(options)

SpecQuery == InitQuery /\ [][NextQuery]_vars

\* The metrics history: services registered once or twice, metrics_update events
\* and collection ticks until MaxRecorded samples have been recorded for a service.
MaxRecorded == 102

InitHistory ==
    /\ ExecutorIdle
    /\ MonitorConstructed("error", MaxLogs, FALSE, 1, <<>>)

NextHistory ==
    \/ \E name \in ServiceNames : listeners[name] < 2 /\ RegisterService(name)
    \/ \E name \in ServiceNames :
          recorded[name] + listeners[name] <= MaxRecorded /\ MetricsUpdate(name)
    \/ (\A name \in ServiceNames : recorded[name] < MaxRecorded) /\ CollectMetrics

SpecHistory == InitHistory /\ [][NextHistory]_vars

\* Stopping: services are registered while the monitor runs, health cycles and
\* collection ticks take place, and stopMonitoring may be called at any moment.
MaxCollects == 2

InitStop ==
    /\ ExecutorIdle
    /\ MonitorConstructed("error", MaxLogs, TRUE, 1, <<>>)

NextStop ==
    \/ \E name \in ServiceNames :
          timers.health /\ ~Registered(name) /\ RegisterService(name)
    \/ CycleStart
    \/ \E outcome \in {"healthy", "unhealthy", "throws"}, m \in AlertSamples :
          ProbeSettle(outcome, m)
    \/ (\A name \in ServiceNames : recorded[name] < MaxCollects) /\ CollectMetrics
    \/ StopMonitoring

SpecStop == InitStop /\ [][NextStop]_vars

\* The summary: services are registered, health cycles classify them as healthy,
\* degraded or unhealthy, and the summary is asked for at any moment.
SummarySamples == { InitMetrics, [InitMetrics EXCEPT !.averageResponseTime = 5001] }

InitSummary ==
    /\ ExecutorIdle
    /\ MonitorConstructed("info", MaxLogs, FALSE, 1, <<>>)

NextSummary ==
    \/ \E name \in ServiceNames : ~Registered(name) /\ RegisterService(name)
    \/ CycleStart
    \/ \E outcome \in {"healthy", "unhealthy"}, m \in SummarySamples :
          ProbeSettle(outcome, m)
    \/ GetMonitoringSummary

SpecSummary == InitSummary /\ [][NextSummary]_vars

\* Event ingestion: services are registered, some of them twice, and their
\* executors emit api_success and api_failure events; logLevel is debug or info.
InitIngest ==
    /\ ExecutorIdle
    /\ \E logLevel \in {"debug", "info"} :
          MonitorConstructed(logLevel, MaxLogs, FALSE, 1, <<>>)

NextIngest ==
    \/ \E name \in ServiceNames : listeners[name] < 2 /\ RegisterService(name)
    \/ \E name \in ServiceNames : ApiSuccess(name)
    \/ \E name \in ServiceNames : ApiFailure(name)
    \/ Tick

SpecIngest == InitIngest /\ [][NextIngest]_vars

\* Unregistration: services are registered and unregistered while health cycles
\* run and their executors emit metrics_update events; alerting is off.
UnregisterSamples == 2

InitUnregister ==
    /\ ExecutorIdle
    /\ MonitorConstructed("info", MaxLogs, FALSE, 1, <<>>)

NextUnregister ==
    \/ \E name \in ServiceNames :
          ~Registered(name) /\ listeners[name] < 2 /\ RegisterService(name)
    \/ \E name \in ServiceNames : Registered(name) /\ UnregisterService(name)
    \/ CycleStart
    \/ \E outcome \in {"healthy", "unhealthy"}, m \in AlertSamples :
          ProbeSettle(outcome, m)
    \/ \E name \in ServiceNames :
          recorded[name] + listeners[name] <= UnregisterSamples /\ MetricsUpdate(name)

SpecUnregister == InitUnregister /\ [][NextUnregister]_vars

\* Detaching: services are registered and unregistered while their executors go
\* on emitting api_success and api_failure events; alerting is on.
InitDetach ==
    /\ ExecutorIdle
    /\ MonitorConstructed("info", MaxLogs, TRUE, 1, <<>>)

NextDetach ==
    \/ \E name \in ServiceNames :
          ~Registered(name) /\ listeners[name] < 2 /\ RegisterService(name)
    \/ \E name \in ServiceNames : Registered(name) /\ UnregisterService(name)
    \/ \E name \in ServiceNames : ApiSuccess(name)
    \/ \E name \in ServiceNames : ApiFailure(name)
    \/ Tick

SpecDetach == InitDetach /\ [][NextDetach]_vars

\* Timers: updateConfig with and without intervals and stopMonitoring in any order,
\* while a service is registered and collection ticks take place.
MaxRestarts == 2
TimerCollects == 2

IntervalUpdates ==
    [healthCheckInterval : {NoInterval, 0, 1, 2}, metricsInterval : {NoInterval, 0, 1, 2}]

InitTimers ==
    /\ ExecutorIdle
    /\ monConfig = [logLevel |-> "error", maxLogEntries |-> MaxLogs,
                    retentionMs |-> RetentionMs, alertEnabled |-> FALSE,
                    cooldown |-> 1, channels |-> <<>>,
                    healthCheckInterval |-> 1, metricsInterval |-> 1]
    /\ services = <<>>
    /\ listeners = [name \in ServiceNames |-> 0]
    /\ logs = <<>>
    /\ healthChecks = [name \in ServiceNames |-> NoSnapshot]
    /\ alertCooldowns = [key \in CooldownKeys |-> NoAlert]
    /\ alerts = [a \in AlertKinds |-> <<>>]
    /\ deliveries = EmptyBag
    /\ cycle = IdleCycle
    /\ AuxConstructed

NextTimers ==
    \/ \E newConfig \in IntervalUpdates :
          timers.restarts < MaxRestarts /\ UpdateConfig(newConfig)
    \/ StopMonitoring
    \/ ~Registered("A") /\ RegisterService("A")
    \/ recorded["A"] < TimerCollects /\ CollectMetrics

SpecTimers == InitTimers /\ [][NextTimers]_vars

\* Alert cascade: one error event per service triggers an alert whose deliveries
\* all fail, at once (the clock stands still), under cooldown 0 and 1; with
\* cooldown 0 one channel is configured (with more, the pending deliveries grow
\* without bound).
InitCascade ==
    /\ ExecutorIdle
    /\ \E cooldown \in {0, 1}, channels \in ChannelSetups :
          /\ cooldown = 0 => Len(channels) = 1
          /\ MonitorConstructed("error", MaxLogs, TRUE, cooldown, channels)

NextCascade ==
    \/ \E name \in ServiceNames : ~Registered(name) /\ RegisterService(name)
    \/ \E name \in ServiceNames :
          alerts[<<name, "high_error_rate">>] = <<>> /\ ApiFailure(name)
    \/ \E task \in BagToSet(deliveries) : ChannelSettle(task, FALSE)

SpecCascade == InitCascade /\ [][NextCascade]_vars

\* every awaited delivery settles: the post is answered, refused or times out
FairCascade ==
    /\ SpecCascade
    /\ WF_vars(\E task \in BagToSet(deliveries) : ChannelSettle(task, FALSE))

\* Cooldown: the events of the alerting specification with alerting enabled and
\* disabled.
InitCooldown ==
    /\ ExecutorIdle
    /\ \E alertEnabled \in BOOLEAN :
          MonitorConstructed("error", AlertLogs, alertEnabled, Cooldown, <<>>)

NextCooldown ==
    \/ \E name \in ServiceNames : ~Registered(name) /\ RegisterService(name)
    \/ \E name \in ServiceNames : ApiFailure(name)
    \/ CycleStart
    \/ \E outcome \in {"healthy", "unhealthy"}, m \in AlertSamples :
          ProbeSettle(outcome, m)
    \/ Tick

SpecCooldown == InitCooldown /\ [][NextCooldown]_vars

\* Recovery: one registered service whose requests succeed and fail while health
\* cycles run; the store holds RecoveryLogs entries, the retention period spans
\* RecoveryRetention clock ticks, and clearLogs may be called at any time.
RecoveryLogs == 5
RecoveryRetention == 2

\* metrics of a quiet executor and of one with an error rate of a tenth
RecoverySamples ==
    { InitMetrics,
      [InitMetrics EXCEPT !.totalRequests = 20, !.failedRequests = 2] }

InitRecovery ==
    /\ ExecutorIdle
    /\ monConfig = [logLevel |-> "info", maxLogEntries |-> RecoveryLogs,
                    retentionMs |-> RecoveryRetention, alertEnabled |-> FALSE,
                    cooldown |-> 1, channels |-> <<>>]
    /\ services = <<"A">>
    /\ listeners = [name \in ServiceNames |-> IF name = "A" THEN 1 ELSE 0]
    /\ logs = <<>>
    /\ healthChecks = [name \in ServiceNames |-> NoSnapshot]
    /\ alertCooldowns = [key \in CooldownKeys |-> NoAlert]
    /\ alerts = [a \in AlertKinds |-> <<>>]
    /\ deliveries = EmptyBag
    /\ cycle = IdleCycle
    /\ AuxConstructed

NextRecovery ==
    \/ ApiFailure("A")
    \/ ApiSuccess("A")
    \/ ClearLogs
    \/ CycleStart
    \/ \E outcome \in {"healthy", "unhealthy", "throws"}, m \in RecoverySamples :
          ProbeSettle(outcome, m)
    \/ Tick

SpecRecovery == InitRecovery /\ [][NextRecovery]_vars

(* ------------------------------- claims -------------------------------- *)
\* the step in which call p runs request() up to its first await
StartStep(p) == pc[p] = "idle" /\ pc'[p] # "idle"

\* the step in which call p, a successful GET with caching enabled, runs setCache
PutStep(p) ==
    /\ pc[p] = "inflight" /\ pc'[p] = "done" /\ result'[p].success
    /\ cacheConfig.enabled /\ IsGet(call[p].cfg)

\* call p ended with its last attempt failing
CallFailed(p) == pc[p] = "done" /\ obs[p].attempts > 0 /\ ~obs[p].lastOk

C2_RateBudget == Len(admitLog) <= rateLimitConfig.maxRequests

C4_CacheRoundTrip ==
    [][\A p \in Procs :
        LET key == generateCacheKey(call'[p].cfg) IN
        (/\ StartStep(p) /\ cacheConfig.enabled /\ IsGet(call'[p].cfg)
         /\ CacheHas(cache, key)
         /\ now - CacheGet(cache, key).timestamp <= cacheConfig.ttl)
        => /\ pc'[p] = "done"
           /\ result'[p].success /\ result'[p].cached
           /\ result'[p].data = CacheGet(cache, key).data
           /\ obs'[p].attempts = 0]_vars

\* C5: TTL expiry: a cache read of a key whose entry has age > ttl returns absent,
\* removes the entry and counts one cache miss (and no hit); a read at age <= ttl
\* returns the stored value and leaves the entry, its data and its timestamp in place.
C5_TtlExpiry ==
    [][\A p \in Procs :
        LET key == generateCacheKey(call'[p].cfg) IN
        (StartStep(p) /\ cacheConfig.enabled /\ IsGet(call'[p].cfg) /\ CacheHas(cache, key))
        => LET item == CacheGet(cache, key) IN
           IF now - item.timestamp > cacheConfig.ttl
           THEN /\ ~CacheHas(cache', key)
                /\ obs'[p].cached.isNull
                /\ ~result'[p].cached
                /\ metrics'.cacheMisses = metrics.cacheMisses + 1
                /\ metrics'.cacheHits = metrics.cacheHits
           ELSE /\ CacheHas(cache', key)
                /\ obs'[p].cached = [isNull |-> FALSE, data |-> item.data]
                /\ CacheGet(cache', key).data = item.data
                /\ CacheGet(cache', key).timestamp = item.timestamp
                /\ Len(cache') = Len(cache)]_vars

\* after a hit, a later read found the only entry expired and purged it
C5_Witness ==
    /\ metrics.successfulRequests >= 1
    /\ metrics.cacheHits >= 1
    /\ cache = <<>>
    /\ \E p \in Procs : pc[p] = "inflight" /\ obs[p].cached.isNull

\* C6: cache capacity: a put of a new key into a cache holding maxSize entries
\* leaves it holding exactly maxSize entries, under every strategy and timing.
C6_CacheCapacity ==
    [][\A p \in Procs :
        (/\ PutStep(p)
         /\ Len(cache) = cacheConfig.maxSize
         /\ ~CacheHas(cache, generateCacheKey(call[p].cfg)))
        => Len(cache') = cacheConfig.maxSize]_vars

\* C7: LRU eviction target: under 'lru' a put into a full cache removes an entry
\* whose timestamp is the oldest, and a cache read changes no entry's timestamp.
C7_LruEvictsOldest ==
    [][\A p \in Procs :
        cacheConfig.strategy = "lru" =>
            /\ (PutStep(p) /\ Len(cache) >= cacheConfig.maxSize) =>
                  \E i \in 1..Len(cache) :
                      /\ \A j \in 1..Len(cache) : cache[i].timestamp <= cache[j].timestamp
                      /\ CacheKeys(cache') =
                            (CacheKeys(cache) \ {cache[i].key})
                                \cup {generateCacheKey(call[p].cfg)}
            /\ StartStep(p) =>
                  \A k \in CacheKeys(cache') :
                      CacheGet(cache', k).timestamp = CacheGet(cache, k).timestamp]_vars

\* the key with the fewest hits among those present, the earliest-inserted on ties
LeastUsedFirstInserted ==
    LET hits(k) == CacheGet(cache, k).hits
        i == CHOOSE i \in 1..Len(insOrder) :
                /\ \A j \in 1..Len(insOrder) : hits(insOrder[i]) <= hits(insOrder[j])
                /\ \A j \in 1..(i - 1) : hits(insOrder[j]) > hits(insOrder[i])
    IN insOrder[i]

\* C8: FIFO and LFU eviction targets: a put into a full cache removes, under 'fifo',
\* the key inserted first among those present, and under 'lfu' the key with the
\* minimal access count, the earliest-inserted one on ties; every other entry stays.
C8_FifoLfuTargets ==
    [][\A p \in Procs :
        (PutStep(p) /\ Len(cache) >= cacheConfig.maxSize) =>
            LET key == generateCacheKey(call[p].cfg) IN
            CASE cacheConfig.strategy = "fifo" ->
                    CacheKeys(cache') = (CacheKeys(cache) \ {insOrder[1]}) \cup {key}
              [] cacheConfig.strategy = "lfu" ->
                    CacheKeys(cache') =
                        (CacheKeys(cache) \ {LeastUsedFirstInserted}) \cup {key}
              [] OTHER -> TRUE]_vars

\* under 'lfu' a put evicted an entry other than the first-inserted one, which had
\* been read and stays first
C8_Witness ==
    /\ cacheConfig.strategy = "lfu"
    /\ Len(cache) = 2
    /\ cache[1].hits > 0
    /\ \E p \in Procs : pc[p] = "done" /\ obs[p].evicted # {}

\* C9: retry attempt count: a call makes at most retryAttempts+1 attempts; a call
\* whose first k attempts failed and whose attempt k+1 succeeded has resolved to
\* success=true with exactly k+1 attempts made, and a resolved call makes no more.
C9_AttemptCount ==
    /\ [](\A p \in Procs :
            /\ obs[p].attempts <= config.retryAttempts + 1
            /\ (pc[p] = "done" /\ obs[p].lastOk) =>
                  /\ result[p].success
                  /\ obs[p].attempts = Len(obs[p].errs) + 1
                  /\ Len(obs[p].errs) <= config.retryAttempts)
    /\ [][\A p \in Procs :
            pc[p] = "done" => (pc'[p] = "done" => obs'[p].attempts = obs[p].attempts)]_vars

\* with retryAttempts = 2, a call failed twice and then succeeded on its third attempt
C9_Witness ==
    \E p \in Procs :
        /\ config.retryAttempts = 2
        /\ pc[p] = "done" /\ result[p].success
        /\ Len(obs[p].errs) = 2 /\ obs[p].attempts = 3

\* C10: retry exhaustion: a call whose last attempt failed has made all
\* retryAttempts+1 attempts, and its Result has success=false with the message (and
\* status) of the last attempt's error.
C10_LastErrorSurfaced ==
    \A p \in Procs :
        CallFailed(p) =>
            LET last == obs[p].errs[Len(obs[p].errs)] IN
            /\ Len(obs[p].errs) = config.retryAttempts + 1
            /\ obs[p].attempts = config.retryAttempts + 1
            /\ result[p].success = FALSE
            /\ result[p].error = last.message
            /\ result[p].statusCode = last.response

\* all attempts failed, the first and the last with different errors
C10_Witness ==
    \E p \in Procs :
        /\ CallFailed(p)
        /\ Len(obs[p].errs) >= 2
        /\ obs[p].errs[1] # obs[p].errs[Len(obs[p].errs)]
        /\ result[p].error = obs[p].errs[Len(obs[p].errs)].message

\* the calls of this behaviour have all ended (none is suspended on an await)
Quiescent == \A p \in Procs : pc[p] \in {"idle", "done"}

\* C11: request counters: once the calls issued since construction have ended, S of
\* them in success and F in failure (with any number of retries inside them),
\* successfulRequests = S, failedRequests = F and totalRequests = S + F.
C11_RequestCounters ==
    Quiescent =>
        /\ metrics.successfulRequests = outcomes.success
        /\ metrics.failedRequests = outcomes.failure
        /\ metrics.totalRequests = outcomes.success + outcomes.failure

\* C12: running average: while no failure has been recorded, each successful call
\* with response time t moves averageResponseTime from the mean of the N-1 earlier
\* response times to the mean of all N (avg' * N = avg * (N-1) + t).
C12_RunningAverage ==
    [][\A p \in Procs :
        (/\ pc[p] = "inflight" /\ pc'[p] = "done" /\ result'[p].success
         /\ metrics.failedRequests = 0)
        => metrics'.averageResponseTime * metrics'.successfulRequests =
              metrics.averageResponseTime * metrics.successfulRequests
                  + result'[p].responseTime]_vars

\* C13: events once per request: a call that was not served from the cache has, when
\* it ends, emitted exactly one event: api_success if it succeeded, api_failure with
\* the error, url and method if it failed, whatever the number of its attempts.
C13_OneEventPerRequest ==
    \A p \in Procs :
        (pc[p] = "done" /\ ~result[p].cached) =>
            /\ Len(obs[p].events) = 1
            /\ IF result[p].success
               THEN obs[p].events[1].type = "api_success"
               ELSE /\ obs[p].events[1].type = "api_failure"
                    /\ obs[p].events[1].error = result[p].error
                    /\ obs[p].events[1].url = call[p].cfg.url
                    /\ obs[p].events[1].method = call[p].cfg.method

\* the ids of the registered subscriptions whose events contain event, in
\* registration order
MatchingIds(event) ==
    LET m == SelectSeq(webhooks, LAMBDA w : event \in w.events)
    IN [i \in 1..Len(m) |-> m[i].id]

\* C14: webhook on failure: a call that ended in failure has delivered 'api_failure'
\* once to every registered subscription whose events contain it, and to no other;
\* its Result is not set while a delivery is still awaited; a call that ended in
\* success has made no delivery.
C14_WebhookOnFailure ==
    \A p \in Procs :
        /\ CallFailed(p) => obs[p].whSent = MatchingIds("api_failure")
        /\ pc[p] = "webhook" => result[p] = NoResult
        /\ (pc[p] = "done" /\ result[p].success) =>
              (obs[p].whSent = <<>> /\ obs[p].whTried = 0)

\* one call failed and delivered to both matching subscriptions (and not to the
\* third), another ended in success without any delivery
C14_Witness ==
    \E p, q \in Procs :
        /\ Len(webhooks) = 3
        /\ CallFailed(p) /\ obs[p].whSent = <<"w1", "w3">>
        /\ pc[q] = "done" /\ result[q].success /\ obs[q].whTried = 0

\* C15: delivery once per matching subscription: each delivery awaited by emitWebhook
\* is one post, whether it fails or not and whatever the subscription's retry
\* policy; after it the loop goes on to the next matching subscription, or the call
\* resolves when there is none; the call is never rejected and no subscription is
\* delivered to twice.
C15_DeliveredOnce ==
    [][\A p \in Procs :
        (pc[p] = "webhook" /\ obs'[p] # obs[p]) =>
            LET later == { i \in (call[p].whIdx + 1)..Len(webhooks) :
                              "api_failure" \in webhooks[i].events }
            IN /\ obs'[p].whTried = obs[p].whTried + 1
               /\ obs'[p].whFailed \in {obs[p].whFailed, obs[p].whFailed + 1}
               /\ IF later = {}
                  THEN pc'[p] = "done" /\ result'[p].success = FALSE
                  ELSE /\ pc'[p] = "webhook"
                       /\ call'[p].whIdx \in later
                       /\ \A i \in later : call'[p].whIdx <= i
               /\ \A i, j \in 1..Len(obs'[p].whSent) :
                     obs'[p].whSent[i] = obs'[p].whSent[j] => i = j]_vars

\* both deliveries of a failed call failed, the first to a subscription whose retry
\* policy allows three retries; each was tried once and the call resolved
C15_Witness ==
    \E p \in Procs :
        /\ CallFailed(p)
        /\ Len(webhooks) = 3 /\ webhooks[1].maxRetries = 3
        /\ obs[p].whSent = <<"w1", "w3">>
        /\ obs[p].whFailed = 2 /\ obs[p].whTried = 2

\* the error rate of a metrics snapshot in thousandths: failedRequests/totalRequests,
\* taken as 0 when there were no requests
ErrorRatePermille(m) ==
    IF m.totalRequests = 0 THEN 0 ELSE (m.failedRequests * 1000) \div m.totalRequests

\* the live health snapshots
Snapshots == { healthChecks[name] : name \in { n \in ServiceNames :
                                                 healthChecks[n].status # "none" } }

\* C16: health classification: a snapshot's status is unhealthy if the probe was not
\* healthy or the error rate is above 10% or the average response time above 10000;
\* otherwise degraded if the error rate is above 5% or the average above 5000 or
\* there are more than 3 recent errors; otherwise healthy; a value exactly on a
\* threshold does not exceed it.
C16_HealthClassification ==
    \A h \in Snapshots :
        h.status =
            IF \/ h.checks.api_connectivity # "pass"
               \/ ErrorRatePermille(h.metrics) > 100
               \/ h.metrics.averageResponseTime > 10000
            THEN "unhealthy"
            ELSE IF \/ ErrorRatePermille(h.metrics) > 50
                    \/ h.metrics.averageResponseTime > 5000
                    \/ h.recentErrors > 3
            THEN "degraded"
            ELSE "healthy"

\* a healthy probe with everything exactly on the degraded thresholds (error rate 5%,
\* average 5000, 3 recent errors) was classified healthy
C16_Witness ==
    \E h \in Snapshots :
        /\ h.status = "healthy"
        /\ h.metrics.totalRequests = 20 /\ h.metrics.failedRequests = 1
        /\ h.metrics.averageResponseTime = 5000
        /\ h.recentErrors = 3

\* C17: sub-checks: every snapshot records the four sub-checks; error-rate is 'pass'
\* exactly when the error rate used for classification (0 for a service with no
\* requests) is below 5%, else 'fail'; response-time is 'pass' iff the average is
\* below 5000, else 'warn'; rate-limit is 'pass' iff rateLimitHits < 10, else
\* 'warn'; connectivity is 'pass' or 'fail'.
C17_SubChecks ==
    \A h \in Snapshots :
        /\ h.checks.api_connectivity \in {"pass", "fail"}
        /\ h.checks.api_connectivity = "fail" => h.status = "unhealthy"
        /\ h.checks.error_rate =
              IF ErrorRatePermille(h.metrics) < 50 THEN "pass" ELSE "fail"
        /\ h.checks.response_time =
              IF h.metrics.averageResponseTime < 5000 THEN "pass" ELSE "warn"
        /\ h.checks.rate_limit =
              IF h.metrics.rateLimitHits < 10 THEN "pass" ELSE "warn"

\* the error-level entries of the log store, by index
ErrorEntries == { i \in 1..Len(logs) : logs[i].level = "error" }

\* the 'high_error_rate' alerts for service fired at a time in from..to, by index
ErrorAlertsIn(service, from, to) ==
    LET fired == alerts[<<service, "high_error_rate">>]
    IN { k \in 1..Len(fired) : from <= fired[k] /\ fired[k] <= to }

\* C18: alert cooldown: with alerting enabled and cooldown > 0, the error-level
\* entries logged for one service within one cooldown window of the first of them
\* produce at most one 'high_error_rate' alert for it, and exactly one when the
\* first was not itself inside the cooldown of an earlier alert.
C18_AlertCooldown ==
    (monConfig.alertEnabled /\ monConfig.cooldown > 0) =>
        \A i, j \in ErrorEntries :
            (/\ i < j
             /\ logs[i].service = logs[j].service
             /\ logs[j].timestamp - logs[i].timestamp < monConfig.cooldown)
            => LET service == logs[i].service
                   first == logs[i].timestamp
                   fired == ErrorAlertsIn(service, first, logs[j].timestamp)
               IN /\ Cardinality(fired) <= 1
                  /\ ErrorAlertsIn(service, first - monConfig.cooldown + 1, first - 1) = {}
                        => Cardinality(fired) = 1

\* two error entries for one service, logged one tick apart inside the cooldown
\* window, and the one alert they produced
C18_Witness ==
    /\ monConfig.alertEnabled
    /\ \E i, j \in ErrorEntries :
          /\ logs[i].service = "A" /\ logs[j].service = "A"
          /\ logs[i].timestamp = 0 /\ logs[j].timestamp = 1
    /\ alerts[<<"A", "high_error_rate">>] = <<0>>
    /\ now = 1

\* a trigger at time t of an alert of type alertType for service is answered by an
\* alert of that same service and type fired inside the cooldown window that ends at t
Answered(service, alertType, t) ==
    LET fired == alerts[<<service, alertType>>]
    IN \E k \in 1..Len(fired) : fired[k] <= t /\ t - fired[k] < monConfig.cooldown

\* C19: cooldowns are independent per (service, alert kind): with alerting enabled,
\* every error entry is answered by an error alert of its own service and every
\* non-healthy snapshot by a health alert of its own service, so a trigger is
\* suppressed only by an earlier alert of the same service and kind inside the
\* cooldown window; and each cooldown timestamp is the time of the last alert of
\* its own service and kind.
C19_IndependentCooldowns ==
    monConfig.alertEnabled =>
        /\ \A i \in ErrorEntries :
              Answered(logs[i].service, "high_error_rate", logs[i].timestamp)
        /\ \A h \in Snapshots :
              h.status # "healthy" => Answered(h.service, "health_issue", h.timestamp)
        /\ \A service \in ServiceNames \cup {MonitorName} :
              /\ LET fired == alerts[<<service, "high_error_rate">>]
                 IN alertCooldowns[<<service, "error">>] =
                        IF fired = <<>> THEN NoAlert ELSE fired[Len(fired)]
              /\ LET fired == alerts[<<service, "health_issue">>]
                 IN alertCooldowns[<<service, "health">>] =
                        IF fired = <<>> THEN NoAlert ELSE fired[Len(fired)]

\* at one and the same time an error alert for A, a health alert for A and an error
\* alert for B were fired: none suppressed another
C19_Witness ==
    /\ alerts[<<"A", "high_error_rate">>] = <<0>>
    /\ alerts[<<"A", "health_issue">>] = <<0>>
    /\ alerts[<<"B", "high_error_rate">>] = <<0>>
    /\ now = 0

\* the step in which the probe awaited by the health cycle settles
ProbeStep == cycle.active /\ cycle' # cycle

\* the step in which a channel delivery settles (the steps of the monitor that leave
\* the registrations and the cycle alone)
ChannelStep == deliveries' # deliveries /\ cycle' = cycle /\ services' = services

\* the channels after index i whose delivery is awaited
LaterChannels(i) ==
    { c \in (i + 1)..Len(monConfig.channels) : monConfig.channels[c] # "email" }

C21_LogStoreBounds ==
    [][logCalls' # logCalls =>
        LET all == Append(logs, logs'[Len(logs')])
            cap == monConfig.maxLogEntries
        IN /\ logs' # <<>>
           /\ logs'[Len(logs')].timestamp = now
           /\ Len(logs') <= cap
           /\ \A i \in 1..Len(logs') : now - logs'[i].timestamp <= monConfig.retentionMs
           /\ \E k \in 0..Len(logs) :
                 /\ logs' = SubSeq(all, k + 1, Len(all))
                 /\ \A i \in 1..k : \/ i <= Len(all) - cap
                                      \/ now - all[i].timestamp >= monConfig.retentionMs]_vars

\* four entries were logged under a cap of 2 and a retention period of one tick, three
\* of them before the clock reached 2: the store holds the one logged at 2
C21_Witness ==
    /\ logCalls = 4 /\ now = 2
    /\ monConfig.maxLogEntries = 2 /\ monConfig.retentionMs = 1
    /\ Len(logs) = 1 /\ logs[1].timestamp = 2

\* entry e passes every filter given in options
Matches(e, options) ==
    /\ options.service # "" => e.service = options.service
    /\ options.level # "" => e.level = options.level
    /\ options.startDate # NoDate => e.timestamp >= options.startDate
    /\ options.endDate # NoDate => e.timestamp <= options.endDate
    /\ options.correlationId # NoCorrelation => e.correlationId = options.correlationId

\* how often entry e occurs in the sequence l
Occurrences(e, l) == Cardinality({ i \in 1..Len(l) : l[i] = e })

\* C22: getLogs returns exactly the stored entries that match every given filter
\* (service, level, startDate..endDate inclusive, correlationId), newest first, cut
\* to the first limit entries when a limit is given, and leaves the store as it was.
C22_GetLogs ==
    [][answer' # answer =>
        LET options == answer'.options
            returned == answer'.returned
            matching == SelectSeq(logs, LAMBDA e : Matches(e, options))
            whole == options.limit = 0 \/ Len(matching) <= options.limit
        IN /\ logs' = logs
           /\ \A i \in 1..Len(returned) : Occurrences(returned[i], returned)
                                              <= Occurrences(returned[i], matching)
           /\ Len(returned) = IF whole THEN Len(matching) ELSE options.limit
           /\ \A i, j \in 1..Len(returned) :
                 i < j => returned[i].timestamp >= returned[j].timestamp
           /\ \A i \in 1..Len(matching) :
                 matching[i].timestamp > returned[Len(returned)].timestamp
                    => Occurrences(matching[i], returned) = Occurrences(matching[i], matching)]_vars

\* a query by service and time range with a limit: the store holds three matching
\* entries of service A logged at 0, 1 and 1 and one only of the two logged at 1, the
\* end of the range, was returned
C22_Witness ==
    /\ answer # NoAnswer
    /\ answer.options = [service |-> "A", level |-> "", startDate |-> 1, endDate |-> 1,
                         limit |-> 1, correlationId |-> NoCorrelation]
    /\ Len(logs) = 3 /\ \A i \in 1..3 : logs[i].service = "A"
    /\ logs[1].timestamp = 0 /\ logs[2].timestamp = 1 /\ logs[3].timestamp = 1
    /\ Len(answer.returned) = 1 /\ answer.returned[1].timestamp = 1

\* C23: metrics history bound: whatever metrics_update events and collection ticks
\* have occurred, each service's history holds at most 100 samples: all the samples
\* recorded for it while fewer than 100 were, and otherwise the 100 recorded last,
\* in the order in which they were recorded.
C23_MetricsHistoryBound ==
    \A name \in ServiceNames :
        LET history == metricsHistory[name]
        IN /\ Len(history) <= 100
           /\ Len(history) = IF recorded[name] < 100 THEN recorded[name] ELSE 100
           /\ \A i \in 1..Len(history) :
                 history[i].serial = recorded[name] - Len(history) + i

\* service A, registered twice, has had 101 samples recorded: its history holds the
\* samples 2..101
C23_Witness ==
    /\ listeners["A"] = 2 /\ recorded["A"] = 101
    /\ Len(metricsHistory["A"]) = 100
    /\ metricsHistory["A"][1].serial = 2 /\ metricsHistory["A"][100].serial = 101

\* stopMonitoring() has returned: neither timer is set
Stopped == ~timers.health /\ ~timers.metrics

\* C24: stop is final: once stopMonitoring() has returned no health cycle starts and
\* no metrics are collected, and the monitor appends no further log entry, records
\* no further health snapshot and fires no further alert, also when a health-check
\* cycle was awaiting a probe at the moment of the stop.
C24_StopIsFinal ==
    [][Stopped =>
        /\ ~(cycle'.active /\ ~cycle.active)
        /\ metricsHistory' = metricsHistory
        /\ logs' = logs
        /\ healthChecks' = healthChecks
        /\ alerts' = alerts]_vars

\* C25: monitoring summary: the totalServices that getMonitoringSummary() returns is
\* the number of currently registered services (2 right after registering two
\* services), and healthyServices + degradedServices + unhealthyServices is
\* totalServices.
C25_MonitoringSummary ==
    [][(answer' # answer /\ answer'.query = "getMonitoringSummary") =>
        LET summary == answer'.returned
        IN /\ summary.totalServices = Len(services)
           /\ summary.healthyServices + summary.degradedServices
                 + summary.unhealthyServices = summary.totalServices]_vars

\* C26: event ingestion: with logLevel at or below info, registerService(name, ...)
\* leaves a registration entry for name as the newest log entry, and each
\* api_success event of a registered executor appends exactly one info entry for
\* its name, each api_failure event exactly one error entry, also when the service
\* was registered more than once.
C26_EventIngestion ==
    [][/\ listeners' # listeners =>
             \E name \in ServiceNames :
                 /\ listeners'[name] = listeners[name] + 1
                 /\ logs' # <<>>
                 /\ logs'[Len(logs')] = LogEntry(now, "info", name, "service_registration")
       /\ (listeners' = listeners /\ logs' # logs) =>
             \E name \in ServiceNames, level \in {"info", "error"} :
                 /\ listeners[name] > 0
                 /\ logs' = addLogEntry(logs, LogEntry(now, level, name, "api_request"),
                                        now, monConfig)]_vars

\* every promise returned by request has settled
AllSettled == \A p \in Procs : pc[p] \in {"done", "rejected"}

\* more calls were issued than the rate limit admitted at once: one of them found
\* the window full
Overloaded == \E p \in Procs : obs[p].waited

AdmitStep(p) == pc[p] \in {"idle", "rlwait"} /\ pc'[p] = "inflight"

\* C28: admission wait: a call that finds maxRequests or more timestamps in the
\* pruned window suspends for exactly oldestRemainingTimestamp + windowMs - now and
\* is not admitted before that time has passed, and the timestamp appended to the
\* window for a call is the time at which the call was admitted.
C28_AdmissionWait ==
    [][\A p \in Procs :
          /\ (StartStep(p) /\ pc'[p] = "rlwait") =>
                LET requests == PruneWindow(rateLimitTracker, now, rateLimitConfig.windowMs)
                IN /\ Len(requests) >= rateLimitConfig.maxRequests
                   /\ call'[p].wakeAt - now =
                         SeqMin(requests) + rateLimitConfig.windowMs - now
          /\ (pc[p] = "rlwait" /\ pc'[p] = "inflight") => now >= call[p].wakeAt
          /\ AdmitStep(p) =>
                /\ rateLimitTracker' # <<>>
                /\ rateLimitTracker'[Len(rateLimitTracker')] = now]_vars

\* the step in which the attempt call p has in flight fails
FailStep(p) == pc[p] = "inflight" /\ Len(obs'[p].errs) = Len(obs[p].errs) + 1

\* C29: backoff schedule: within one request call the delay between failed attempt i
\* (0-based) and attempt i+1 is retryDelay * 2^i, attempt i+1 is not sent before the
\* delay has passed, and after the final failed attempt (attempt retryAttempts) no
\* delay is taken before the failure is surfaced.
C29_BackoffSchedule ==
    [][\A p \in Procs :
          LET i == obs[p].attempts - 1
          IN /\ FailStep(p) =>
                   IF i < config.retryAttempts
                   THEN /\ pc'[p] = "backoff"
                        /\ call'[p].wakeAt - now = config.retryDelay * (2 ^ i)
                   ELSE /\ pc'[p] = "done"
                        /\ ~result'[p].success
             /\ (pc[p] = "backoff" /\ pc'[p] = "inflight") =>
                   /\ now >= call[p].wakeAt
                   /\ obs'[p].attempts = obs[p].attempts + 1]_vars

\* a call whose third attempt (i = 2) has just failed waits 4 * retryDelay for the
\* fourth
C29_Witness ==
    \E p \in Procs :
        /\ pc[p] = "backoff" /\ obs[p].attempts = 3
        /\ call[p].wakeAt - now = 4 * config.retryDelay

\* C30: a cache hit short-circuits the pipeline: a GET answered from the cache
\* returns at once, increments cacheHits by one and changes no other counter,
\* records no rate-limit timestamp, makes no attempt, emits no event and delivers no
\* webhook, and leaves the cached entries as they are apart from the hit count of
\* the entry read; a lookup that misses increments cacheMisses by one and goes on
\* to rate-limit admission.
C30_CacheHitShortCircuit ==
    [][\A p \in Procs :
          StartStep(p) =>
            IF result'[p].cached
            THEN /\ pc'[p] = "done" /\ result'[p].success
                 /\ metrics' = [metrics EXCEPT !.cacheHits = @ + 1]
                 /\ rateLimitTracker' = rateLimitTracker
                 /\ obs'[p].attempts = 0 /\ obs'[p].events = <<>>
                 /\ obs'[p].whTried = 0 /\ obs'[p].whSent = <<>>
                 /\ Len(cache') = Len(cache)
                 /\ \A i \in 1..Len(cache) :
                       [cache'[i] EXCEPT !.hits = 0] = [cache[i] EXCEPT !.hits = 0]
            ELSE /\ pc'[p] \in {"rlwait", "inflight"}
                 /\ metrics'.cacheHits = metrics.cacheHits
                 /\ metrics'.cacheMisses =
                       IF cacheConfig.enabled /\ IsGet(call'[p].cfg)
                       THEN metrics.cacheMisses + 1 ELSE metrics.cacheMisses]_vars

\* one GET went to the network and stored its response, a second GET was answered
\* from the cache: one attempt and one admission in all
C30_Witness ==
    \E p \in Procs :
        /\ pc[p] = "done" /\ result[p].cached
        /\ metrics.cacheHits = 1 /\ metrics.cacheMisses = 1
        /\ metrics.totalRequests = 1 /\ metrics.successfulRequests = 1
        /\ Len(rateLimitTracker) = 1

\* every entry of the cache after the step was in it before (hit counts apart)
NoCacheWrite ==
    \A i \in 1..Len(cache') :
        \E j \in 1..Len(cache) :
            [cache'[i] EXCEPT !.hits = 0] = [cache[j] EXCEPT !.hits = 0]

\* the step leaves the cache and the two cache counters as they are
CacheUntouched ==
    /\ cache' = cache
    /\ metrics'.cacheHits = metrics.cacheHits
    /\ metrics'.cacheMisses = metrics.cacheMisses

\* per step of a call: a call that is not a GET or is made with caching disabled
\* touches neither the cache nor its counters, the step in which a call fails
\* touches neither, and an entry is written only by the step in which an attempt
\* of a GET made with caching enabled succeeds
CacheWriteFrame ==
    \A p \in Procs :
        pc'[p] # pc[p] =>
            LET cfg == IF pc[p] = "idle" THEN call'[p].cfg ELSE call[p].cfg
                get == cacheConfig.enabled /\ cfg.method = "GET"
                succeeds == pc[p] = "inflight" /\ pc'[p] = "done" /\ result'[p].success
            IN /\ ~get => CacheUntouched
               /\ pc'[p] = "done" /\ ~result'[p].success => CacheUntouched
               /\ ~(get /\ succeeds) => NoCacheWrite

\* C31 as claimed: the cache is written only by a successful GET with caching
\* enabled, and a call that ended in failure, a call of another method and a call
\* made with caching disabled have left the cache contents and the
\* cacheHits/cacheMisses counters unchanged.
C31_FailureLeavesCacheAlone ==
    /\ [][CacheWriteFrame]_vars
    /\ [](\A p \in Procs :
            pc[p] = "done"
            /\ (~result[p].success \/ call[p].cfg.method # "GET" \/ ~cacheConfig.enabled)
            => obs[p].counted = 0 /\ obs[p].dropped = {})

\* C31: the cache is written only by a successful GET with caching enabled; a call
\* of another method and a call made with caching disabled leave the cache and the
\* cacheHits/cacheMisses counters unchanged; a GET made with caching enabled, also
\* one that ends in failure, has counted exactly one lookup and deleted at most its
\* own expired entry, and the step in which it fails changes neither.
C31_CacheWrittenBySuccessfulGet ==
    /\ [][CacheWriteFrame]_vars
    /\ [](\A p \in Procs :
            pc[p] = "done" =>
                IF call[p].cfg.method # "GET" \/ ~cacheConfig.enabled
                THEN obs[p].counted = 0 /\ obs[p].dropped = {}
                ELSE /\ obs[p].counted = 1
                     /\ obs[p].dropped \subseteq {generateCacheKey(call[p].cfg)})

\* a GET made with caching enabled has failed after its lookup counted a miss and
\* deleted the expired entry of its key, while another entry stays cached
C31_Witness ==
    \E p \in Procs :
        /\ pc[p] = "done" /\ ~result[p].success
        /\ cacheConfig.enabled /\ call[p].cfg.method = "GET"
        /\ obs[p].counted = 1 /\ obs[p].dropped # {}
        /\ Len(cache) = 1

\* the timestamps now in the rate-limit window
WindowStamps == { rateLimitTracker[i] : i \in 1..Len(rateLimitTracker) }

\* C32: no lost admissions under concurrency: the timestamp of every call that
\* passed checkRateLimit less than windowMs ago is present in the rate-limit
\* window; a call that resumes from its wait does not overwrite the window with a
\* copy that drops the timestamps other calls recorded meanwhile.
C32_NoLostAdmission ==
    \A p \in Procs :
        /\ obs[p].passedAt # NoStamp
        /\ now - obs[p].passedAt < rateLimitConfig.windowMs
        => obs[p].stamp \in WindowStamps

\* C33: rate-limit admission is per call, not per attempt: a call that misses the
\* cache records exactly one timestamp in the window, in the step that sends its
\* first attempt; every other step, a retry included, records none; a retry is sent
\* when its backoff timer fires and never waits for the rate limiter; and whether a
\* call has to wait depends on the one window of the executor, not on its path.
C33_AdmissionPerCall ==
    /\ [][\A p \in Procs :
            /\ AdmitStep(p) =>
                  /\ obs[p].attempts = 0 /\ obs'[p].attempts = 1
                  /\ obs[p].passedAt = NoStamp /\ obs'[p].passedAt = now
                  /\ rateLimitTracker' # <<>>
                  /\ rateLimitTracker'[Len(rateLimitTracker')] = obs'[p].stamp
                  /\ Len(rateLimitTracker') =
                        1 + Len(IF pc[p] = "rlwait" THEN call[p].requests
                                ELSE PruneWindow(rateLimitTracker, now,
                                                 rateLimitConfig.windowMs))
            /\ (StartStep(p) /\ ~result'[p].cached) =>
                  (pc'[p] = "rlwait" <=>
                      Len(PruneWindow(rateLimitTracker, now, rateLimitConfig.windowMs))
                         >= rateLimitConfig.maxRequests)
            /\ pc[p] = "backoff" => pc'[p] \in {"backoff", "inflight"}
            /\ (pc[p] = "backoff" /\ pc'[p] = "inflight") =>
                  /\ obs'[p].attempts = obs[p].attempts + 1
                  /\ obs'[p].passedAt = obs[p].passedAt]_vars
    /\ [][rateLimitTracker' # rateLimitTracker => \E p \in Procs : AdmitStep(p)]_vars

\* a retry is in flight while the window is full and a call to another path waits
\* for admission
C33_Witness ==
    \E p, q \in Procs :
        /\ pc[p] = "inflight" /\ obs[p].attempts = 2
        /\ pc[q] = "rlwait" /\ call[q].cfg.url # call[p].cfg.url
        /\ Len(PruneWindow(rateLimitTracker, now, rateLimitConfig.windowMs))
              >= rateLimitConfig.maxRequests
        /\ obs[p].stamp \in WindowStamps

\* C34: health probes do not disturb request accounting: a healthCheck() call,
\* whether the probe succeeds or fails, leaves totalRequests, successfulRequests,
\* failedRequests and lastError unchanged and emits no api_success/api_failure
\* event, so totalRequests = successfulRequests + failedRequests whenever no
\* request is in flight.
C34_ProbesLeaveAccounting ==
    /\ [][probes' # probes =>
            /\ metrics'.totalRequests = metrics.totalRequests
            /\ metrics'.successfulRequests = metrics.successfulRequests
            /\ metrics'.failedRequests = metrics.failedRequests
            /\ metrics'.lastError = metrics.lastError
            /\ probes'.events = probes.events]_vars
    /\ [](Quiescent =>
            metrics.totalRequests = metrics.successfulRequests + metrics.failedRequests)

\* C35: monitor maps track registration: in every reachable state the services
\* that have a health snapshot or a metrics history are registered services (one
\* live snapshot each, the maps being keyed by name), also when unregisterService
\* runs while a cycle is suspended on that service's probe or a metrics_update
\* arrives after unregistration.  (An empty history of an unregistered name stands
\* for no entry.)
C35_MapsTrackRegistration ==
    \A name \in ServiceNames :
        (healthChecks[name] # NoSnapshot \/ metricsHistory[name] # <<>>)
        => Registered(name)

\* the step appends a log entry of an api event for name
IngestsEvent(name) ==
    /\ logs' # logs
    /\ logs' # <<>>
    /\ logs'[Len(logs')].service = name
    /\ logs'[Len(logs')].operation = "api_request"

\* C36: unregistration ends ingestion: once unregisterService(name) has logged its
\* entry, the api_success/api_failure events of that executor append no further
\* log entry for name and trigger no further alert for name.
C36_UnregistrationEndsIngestion ==
    [][\A name \in ServiceNames :
          (~Registered(name) /\ ~Registered(name)') =>
              /\ ~IngestsEvent(name)
              /\ alerts'[<<name, "high_error_rate">>] = alerts[<<name, "high_error_rate">>]]_vars

\* no interval timer of either kind is running
NoneActive == timers.active.health = 0 /\ timers.active.metrics = 0

\* C37: single timer pair: after any sequence of construction, updateConfig and
\* stopMonitoring calls at most one health-check timer and at most one
\* metrics-collection timer are running, each under its stored handle; a change of
\* the timers that is not a restart by updateConfig (one that gives an interval)
\* leaves none running, and none starts again without such a restart.
C37_SingleTimerPair ==
    /\ [](/\ timers.active.health = (IF timers.health THEN 1 ELSE 0)
          /\ timers.active.metrics = (IF timers.metrics THEN 1 ELSE 0))
    /\ [][(timers' # timers /\ timers'.restarts = timers.restarts) => NoneActive']_vars
    /\ [][(NoneActive /\ timers'.restarts = timers.restarts) => NoneActive']_vars

\* monitoring was stopped and restarted by updateConfig MaxRestarts times and one
\* timer of each kind is running; collection ticks were recorded
C37_Witness ==
    /\ timers.restarts = MaxRestarts
    /\ timers.active = [health |-> 1, metrics |-> 1]
    /\ recorded["A"] = TimerCollects
    /\ monConfig.healthCheckInterval = 2

\* C38: the alert cascade terminates: when every channel fails to deliver, the
\* 'alert_delivery' error logs for 'monitor' cause at most one further alert for
\* 'monitor' per cooldown window, and the chain alert -> delivery failure -> error
\* log -> alert stops (no delivery stays pending and none is started any more), for
\* every cooldown value including 0.
C38_CascadeTerminates ==
    /\ [](monConfig.cooldown > 0 =>
            Len(alerts[<<MonitorName, "high_error_rate">>]) <= 1)
    /\ <>[](deliveries = EmptyBag)

\* the step logs an error entry for service: a trigger of its error alert
ErrorTrigger(service) ==
    /\ logs' # <<>>
    /\ logs'[Len(logs')] = LogEntry(now, "error", service, "api_request")
    /\ logs' # logs \/ alerts' # alerts

\* the step stores a non-healthy snapshot of service: a trigger of its health alert
HealthTrigger(service) ==
    /\ ProbeStep /\ cycle.name = service
    /\ healthChecks'[service].status \notin {"none", "healthy"}

\* what a trigger of the alert (service, alertType) with cooldown key (service, kind)
\* does: it fires and sets the timestamp when alerting is enabled and no alert was
\* fired for the key less than cooldown ago, and changes neither otherwise
TriggerEffect(service, alertType, kind) ==
    LET last == alertCooldowns[<<service, kind>>]
        fires == /\ monConfig.alertEnabled
                 /\ last = NoAlert \/ now - last >= monConfig.cooldown
    IN IF fires
       THEN /\ alerts'[<<service, alertType>>] = RecordAlert(alerts[<<service, alertType>>], now)
            /\ alertCooldowns'[<<service, kind>>] = now
       ELSE /\ alerts'[<<service, alertType>>] = alerts[<<service, alertType>>]
            /\ alertCooldowns'[<<service, kind>>] = last

\* C39: the cooldown is measured from the last fired alert: a suppressed trigger
\* does not update the stored timestamp, so the first trigger for the same
\* (service, kind) that arrives at least cooldown after the last fired alert fires,
\* however many were suppressed in between; with alerting disabled no trigger fires
\* or records a cooldown.
C39_CooldownFromLastFired ==
    /\ [][\A service \in ServiceNames :
            /\ ErrorTrigger(service) => TriggerEffect(service, "high_error_rate", "error")
            /\ HealthTrigger(service) => TriggerEffect(service, "health_issue", "health")]_vars
    /\ [](\A key \in CooldownKeys :
            alertCooldowns[key] # NoAlert =>
                \E a \in AlertKinds :
                    /\ a[1] = key[1]
                    /\ alerts[a] # <<>> /\ alerts[a][Len(alerts[a])] = alertCooldowns[key])
    /\ [](~monConfig.alertEnabled =>
            /\ \A a \in AlertKinds : alerts[a] = <<>>
            /\ \A key \in CooldownKeys : alertCooldowns[key] = NoAlert)

\* an alert for A fired at 0, the error logged at 1 was suppressed, and the error
\* logged at 2, a full cooldown after the alert, fired again
C39_Witness ==
    /\ monConfig.alertEnabled
    /\ logs = <<LogEntry(1, "error", "A", "api_request"),
                LogEntry(2, "error", "A", "api_request")>>
    /\ alerts[<<"A", "high_error_rate">>] = <<0, 2>>
    /\ alertCooldowns[<<"A", "error">>] = 2

\* the error-level entries for service in the log store l
ErrorsOf(l, service) ==
    SelectSeq(l, LAMBDA e : e.service = service /\ e.level = "error")

\* the step stores a snapshot of service
Evaluates(service) ==
    ProbeStep /\ cycle.name = service /\ cycle'.last # "throws"

\* C40: status has no memory, and recent errors have no age limit: the status an
\* evaluation stores depends only on that cycle's probe result, the current
\* metrics and the error entries now in the log store, never on the status before;
\* while 4 or more error entries for the service are in the store every
\* evaluation yields degraded or unhealthy, however old they are, and healthy is
\* stored only when fewer than 4 remain.
C40_StatusWithoutMemory ==
    [][\A service \in ServiceNames :
         Evaluates(service) =>
            LET snapshot == healthChecks'[service]
                errors == ErrorsOf(logs, service)
            IN /\ snapshot.status =
                     determineHealthStatus(snapshot.checks.api_connectivity = "pass",
                                           snapshot.metrics,
                                           SliceFirst(errors, 5))
               /\ Len(errors) >= 4 => snapshot.status \in {"degraded", "unhealthy"}
               /\ snapshot.status = "healthy" => Len(errors) < 4]_vars

\* a reachable probe of a quiet service finds it degraded at the last tick because
\* of 4 errors logged at tick 0, with a newer entry after them in the store
C40_Witness ==
    /\ now = MaxTime
    /\ healthChecks["A"].status = "degraded"
    /\ healthChecks["A"].timestamp = now
    /\ healthChecks["A"].checks.api_connectivity = "pass"
    /\ healthChecks["A"].metrics = InitMetrics
    /\ Len(ErrorsOf(logs, "A")) = 4
    /\ \A i \in 1..Len(logs) : logs[i].level = "error" => logs[i].timestamp = 0
    /\ logs[Len(logs)].level = "info"

====
